---- MODULE Spec2Model ----
(***************************************************************************)
(* Model of video-convert-mcp: the single-job executor                     *)
(* (FFmpegService.convertVideo), the convert_video tool handler            *)
(* (handleConvertVideo), the batch_convert tool handler                    *)
(* (handleBatchConvert) and the ValidatorService checks they use.          *)
(*                                                                         *)
(* Strings that the code takes apart (file names, formats) are sequences   *)
(* of one-character strings.  A path is a record [dir, base]: path.join    *)
(* builds it, path.dirname / path.basename read its fields.                *)
(* The transcoding engine (fluent-ffmpeg) is outside the repository: it is *)
(* modelled by its event contract, start, progress*, then end or error.    *)
(***************************************************************************)
EXTENDS Integers, Sequences, FiniteSets, TLC

VARIABLES
    fs,                 \* the file system: path -> content state, absent when not in DOMAIN
    jobs,               \* one record per convertVideo call, indexed by task id
    activeConversions,  \* FFmpegService.activeConversions: the registered task ids
    conv,               \* the convert_video request being handled
    batch,              \* the batch_convert request being handled
    call                \* the last call of a service function: its input and what it returned

jobVars == <<fs, jobs, activeConversions>>
callerVars == <<conv, batch, call>>
vars == <<fs, jobs, activeConversions, conv, batch, call>>

(***************************************************************************)
(* Bounds of the model.                                                    *)
(***************************************************************************)
\* convertVideo calls made directly by a caller (they may overlap)
MaxTasks == 1
\* convertVideo calls of two callers that overlap
MaxConcurrent == 2
\* entries in a batchConvert input list
MaxServiceBatch == 3
\* entries in a batch_convert input list
MaxBatch == 3
\* entries in a batch_convert input list of files with special names
MaxNamedBatch == 2
\* length of the resolution strings that are enumerated in full
MaxResolutionLen == 3

(***************************************************************************)
(* Strings as character sequences.                                         *)
(***************************************************************************)
\* An optional argument is <<>> when it is undefined and <<v>> when it is v
None == <<>>
Some(v) == <<v>>
Given(opt) == opt # <<>>
Val(opt) == opt[1]

F_mkv == <<"m", "k", "v">>
F_mp4 == <<"m", "p", "4">>
F_avi == <<"a", "v", "i">>
F_mov == <<"m", "o", "v">>
F_wmv == <<"w", "m", "v">>
F_webm == <<"w", "e", "b", "m">>
F_m4v == <<"m", "4", "v">>
F_flv == <<"f", "l", "v">>
F_gif == <<"g", "i", "f">>
F_txt == <<"t", "x", "t">>

Dot == <<".">>

\* ValidatorService.supportedFormats: the keys, in declaration order
supportedFormats == <<F_mp4, F_avi, F_mov, F_wmv, F_mkv, F_webm, F_m4v>>

\* ValidatorService.videoExtensions, each without its leading dot
videoExtensions ==
    { F_mp4, F_avi, F_mov, F_wmv, F_mkv, F_webm, F_m4v,
      <<"m", "p", "g">>, <<"m", "p", "e", "g">>, <<"3", "g", "p">>,
      <<"a", "s", "f">>, <<"r", "m">>, <<"r", "m", "v", "b">> }

Range(s) == { s[i] : i \in 1..Len(s) }

Upper == <<"A", "B", "C", "D", "E", "F", "G", "H", "I", "J", "K", "L", "M",
           "N", "O", "P", "Q", "R", "S", "T", "U", "V", "W", "X", "Y", "Z">>
Lower == <<"a", "b", "c", "d", "e", "f", "g", "h", "i", "j", "k", "l", "m",
           "n", "o", "p", "q", "r", "s", "t", "u", "v", "w", "x", "y", "z">>

\* String.prototype.toLowerCase, one character
LowerChar(c) ==
    IF \E i \in 1..26 : Upper[i] = c
    THEN Lower[CHOOSE i \in 1..26 : Upper[i] = c]
    ELSE c

ToLower(s) == [i \in 1..Len(s) |-> LowerChar(s[i])]

\* index of the last "." of a base name, 0 when it has none
LastDot(b) ==
    LET dots == { i \in 1..Len(b) : b[i] = "." }
    IN IF dots = {} THEN 0 ELSE CHOOSE i \in dots : \A j \in dots : j <= i

\* path.extname: from the last dot on; empty without a dot or when the only
\* dot leads the name
ExtName(b) ==
    LET i == LastDot(b) IN IF i <= 1 THEN <<>> ELSE SubSeq(b, i, Len(b))

\* path.parse(p).name: the base name without its extension
ParseName(b) == SubSeq(b, 1, Len(b) - Len(ExtName(b)))

\* path.join(dir, file)
Join(d, file) == [dir |-> d, base |-> file]

(***************************************************************************)
(* The file system.  Input files are fixed; outputs come and go.           *)
(***************************************************************************)
FileStates == {"ok", "empty", "corrupt", "huge"}

FileAt(p) == IF p \in DOMAIN fs THEN fs[p] ELSE "absent"

\* fs.access(p) succeeds
Exists(p) == p \in DOMAIN fs

\* the file at p replaced by one in state st ("absent": the file removed)
WriteFile(files, p, st) ==
    IF st = "absent"
    THEN [q \in DOMAIN files \ {p} |-> files[q]]
    ELSE [q \in DOMAIN files \cup {p} |-> IF q = p THEN st ELSE files[q]]

\* fs.mkdir(dir, {recursive: true}) succeeds; "ro" stands for a directory
\* that cannot be created
DirCreatable(d) == d # "ro"

P_a_mp4 == Join("in", <<"a", ".", "m", "p", "4">>)
P_b_avi == Join("in", <<"b", ".", "a", "v", "i">>)
P_n_txt == Join("in", <<"n", ".", "t", "x", "t">>)
P_e_mov == Join("in", <<"e", ".", "m", "o", "v">>)
P_m_mp4 == Join("in", <<"m", ".", "m", "p", "4">>)
P_c_mp4 == Join("in", <<"c", ".", "m", "p", "4">>)

\* the files present before any request: a.mp4 and b.avi are sound videos,
\* n.txt is no video, e.mov is empty, c.mp4 is not parsable, m.mp4 does
\* not exist
InputFiles == (P_a_mp4 :> "ok") @@ (P_b_avi :> "ok") @@ (P_n_txt :> "ok")
              @@ (P_e_mov :> "empty") @@ (P_c_mp4 :> "corrupt")

(***************************************************************************)
(* ValidatorService.                                                       *)
(***************************************************************************)
\* mime.lookup(filePath) names a video type or finds no type; among the
\* allowlisted extensions only the RealMedia ones map to application/*
MimeNotVideo(ext) == ext \in {<<"r", "m">>, <<"r", "m", "v", "b">>}

\* validateVideoFile: "ok" or the reason of the first check that fails
validateVideoFile(p) ==
    LET dotExt == ToLower(ExtName(p.base))
        ext == IF dotExt = <<>> THEN <<>> ELSE Tail(dotExt)
    IN IF ~Exists(p) THEN "file not found"
       ELSE IF ext \notin videoExtensions THEN "unsupported extension"
       ELSE IF FileAt(p) = "empty" THEN "file is empty"
       ELSE IF FileAt(p) = "huge" THEN "file too large"
       ELSE IF MimeNotVideo(ext) THEN "not a video"
       ELSE "ok"


\* validateOutputFormat with flv taken as supported
validateOutputFormatWithFlv(format) ==
    IF Given(format) /\ Val(format) \in Range(supportedFormats) \cup {F_flv}
    THEN "ok" ELSE "unsupported output format"

\* validateOutputFormat: membership in the keys of supportedFormats
validateOutputFormat(format) ==
    IF Given(format) /\ Val(format) \in Range(supportedFormats)
    THEN "ok" ELSE "unsupported output format"

MaxFileName == 255

InvalidChars == {"<", ">", ":", "\"", "/", "\\", "|", "?", "*", "\t", "\n", "\r", "\f"}

ReservedNames ==
    { <<"c", "o", "n">>, <<"p", "r", "n">>, <<"a", "u", "x">>, <<"n", "u", "l">> }
    \cup { <<"c", "o", "m", d>> : d \in {"1", "2", "3", "4", "5", "6", "7", "8", "9"} }
    \cup { <<"l", "p", "t", d>> : d \in {"1", "2", "3", "4", "5", "6", "7", "8", "9"} }

\* a reserved-name test that knows the bare names only
IsReservedBareOnly(name) == ToLower(name) \in ReservedNames

\* /^(CON|PRN|AUX|NUL|COM[1-9]|LPT[1-9])(\.|$)/i
IsReserved(name) ==
    LET l == ToLower(name)
    IN \E r \in ReservedNames :
         /\ Len(l) >= Len(r)
         /\ SubSeq(l, 1, Len(r)) = r
         /\ (Len(l) = Len(r) \/ l[Len(r) + 1] = ".")

\* isValidFileName
isValidFileName(name) ==
    /\ Len(name) # 0
    /\ Len(name) <= MaxFileName
    /\ Range(name) \cap InvalidChars = {}
    /\ ~IsReserved(name)


\* validateOutputPath without the existing-file check
validateOutputPathIgnoringExisting(p, overwrite) ==
    IF ~DirCreatable(p.dir) THEN "cannot create output directory"
    ELSE IF ~isValidFileName(p.base) THEN "invalid file name"
    ELSE "ok"

\* validateOutputPath(outputPath, overwrite)
validateOutputPath(p, overwrite) ==
    IF ~DirCreatable(p.dir) THEN "cannot create output directory"
    ELSE IF ~overwrite /\ Exists(p) THEN "output file exists"
    ELSE IF ~isValidFileName(p.base) THEN "invalid file name"
    ELSE "ok"

Digits == <<"0", "1", "2", "3", "4", "5", "6", "7", "8", "9">>

IsDigits(s) == Len(s) >= 1 /\ \A i \in 1..Len(s) : \E d \in 1..10 : Digits[d] = s[i]

DigitVal(c) == (CHOOSE d \in 1..10 : Digits[d] = c) - 1

RECURSIVE ParseInt(_)
\* parseInt of a string of decimal digits
ParseInt(s) ==
    IF s = <<>> THEN 0
    ELSE 10 * ParseInt(SubSeq(s, 1, Len(s) - 1)) + DigitVal(s[Len(s)])

MaxWidth == 7680
MaxHeight == 4320

\* a validateResolution whose ceilings are exclusive
validateResolutionBelowCeiling(s) ==
    LET cuts == { i \in 1..Len(s) :
                    /\ s[i] = "x"
                    /\ IsDigits(SubSeq(s, 1, i - 1))
                    /\ IsDigits(SubSeq(s, i + 1, Len(s))) }
    IN IF cuts = {} THEN [isValid |-> FALSE, error |-> "invalid resolution format"]
       ELSE LET i == CHOOSE c \in cuts : TRUE
                width == ParseInt(SubSeq(s, 1, i - 1))
                height == ParseInt(SubSeq(s, i + 1, Len(s)))
            IN IF width < 1 \/ height < 1
               THEN [isValid |-> FALSE, error |-> "resolution must be positive"]
               ELSE IF width >= MaxWidth \/ height >= MaxHeight
               THEN [isValid |-> FALSE, error |-> "resolution too large"]
               ELSE [isValid |-> TRUE, width |-> width, height |-> height]

\* validateResolution: /^(\d+)x(\d+)$/, then the range of both numbers
validateResolution(s) ==
    LET cuts == { i \in 1..Len(s) :
                    /\ s[i] = "x"
                    /\ IsDigits(SubSeq(s, 1, i - 1))
                    /\ IsDigits(SubSeq(s, i + 1, Len(s))) }
    IN IF cuts = {} THEN [isValid |-> FALSE, error |-> "invalid resolution format"]
       ELSE LET i == CHOOSE c \in cuts : TRUE
                width == ParseInt(SubSeq(s, 1, i - 1))
                height == ParseInt(SubSeq(s, i + 1, Len(s)))
            IN IF width < 1 \/ height < 1
               THEN [isValid |-> FALSE, error |-> "resolution must be positive"]
               ELSE IF width > MaxWidth \/ height > MaxHeight
               THEN [isValid |-> FALSE, error |-> "resolution too large"]
               ELSE [isValid |-> TRUE, width |-> width, height |-> height]

MaxVideoBitrate == 50000
MaxAudioBitrate == 320
MaxFrameRate == 120

\* a validateBitrate whose ceilings are exclusive
validateBitrateBelowCeiling(bitrate, type) ==
    IF bitrate <= 0 THEN "bitrate must be positive"
    ELSE IF bitrate >= (IF type = "video" THEN MaxVideoBitrate ELSE MaxAudioBitrate)
    THEN "bitrate too large"
    ELSE "ok"

\* validateBitrate(bitrate, type)
validateBitrate(bitrate, type) ==
    IF bitrate <= 0 THEN "bitrate must be positive"
    ELSE IF bitrate > (IF type = "video" THEN MaxVideoBitrate ELSE MaxAudioBitrate)
    THEN "bitrate too large"
    ELSE "ok"

\* validateFrameRate
validateFrameRate(frameRate) ==
    IF frameRate <= 0 THEN "frame rate must be positive"
    ELSE IF frameRate > MaxFrameRate THEN "frame rate too high"
    ELSE "ok"

(***************************************************************************)
(* FFmpegService.convertVideo: one job.                                    *)
(***************************************************************************)
\* the percentages a progress event may carry, in tenths of a percent;
\* None is a missing percentage
Percents == {None, Some(-15), Some(1204)}

\* Math.round of x tenths
RoundTenths(x) == (x + 5) \div 10

\* Math.round(progressInfo.percent || 0)
ProgressOf(percent) ==
    IF Given(percent) /\ Val(percent) # 0 THEN RoundTenths(Val(percent)) ELSE 0

\* the preconditions of convertVideo, in the order the code checks them
Precheck(inputPath, outputPath, overwrite) ==
    IF ~Exists(inputPath) THEN "inputMissing"
    ELSE IF ~DirCreatable(outputPath.dir) THEN "mkdirFailed"
    ELSE IF ~overwrite /\ Exists(outputPath) THEN "outputExists"
    ELSE "ok"

\* the state of a convertVideo call right after its preconditions; the
\* ConversionProgress object does not exist yet (status "none")
NewJob(inputPath, outputPath, overwrite, format, cb) ==
    LET verdict == Precheck(inputPath, outputPath, overwrite)
    IN [ inputPath  |-> inputPath,
         outputPath |-> outputPath,
         overwrite  |-> overwrite,
         format     |-> format,
         cb         |-> cb,
         pc         |-> IF verdict = "ok" THEN "checked" ELSE "done",
         status     |-> "none",
         progress   |-> 0,
         ran        |-> FALSE,
         delivered  |-> None,
         error      |-> "",
         outcome    |-> IF verdict = "ok" THEN "pending" ELSE "rejected",
         message    |-> IF verdict = "ok" THEN "" ELSE verdict ]

\* setCodecsForFormat calls format.toLowerCase(): a TypeError when the
\* options carry no outputFormat
BuildThrows(format) == ~Given(format)

\* whether one invocation of the caller's progress callback may throw
Throws(cb) == IF cb = "throwing" THEN BOOLEAN ELSE {FALSE}

\* validateOutputFile: access, size > 0, probe parses the file
ValidateOutputFile(st) ==
    CASE st = "absent"  -> "output file missing"
      [] st = "empty"   -> "output file is empty"
      [] st = "corrupt" -> "output file not parsable"
      [] OTHER          -> "ok"

VerificationErrors ==
    {"output file missing", "output file is empty", "output file not parsable"}

MsgVerify == "conversion completed but verification failed"
MsgEngine == "video conversion failed"
MsgBuild  == "TypeError"

SetJob(t, r) == [jobs EXCEPT ![t] = r]

\* the Promise executor: the job is constructed and registered, the command
\* built and run
StartJob(t) ==
    /\ t \in DOMAIN jobs
    /\ jobs[t].pc = "checked"
    /\ activeConversions' = activeConversions \cup {t}
    /\ jobs' = SetJob(t,
         IF BuildThrows(jobs[t].format)
         THEN [jobs[t] EXCEPT !.status = "pending", !.pc = "done",
                              !.outcome = "rejected", !.message = MsgBuild]
         ELSE [jobs[t] EXCEPT !.status = "pending", !.pc = "spawned",
                              !.ran = TRUE])
    /\ UNCHANGED fs
    /\ UNCHANGED callerVars

\* on('start'): the status is set and onProgress?.(progress) is handed the
\* job's progress object; delivered records what the object held then
EngineStart(t) ==
    /\ t \in DOMAIN jobs
    /\ jobs[t].pc = "spawned"
    /\ jobs' = SetJob(t, [jobs[t] EXCEPT
                            !.status = "processing", !.pc = "started",
                            !.delivered = Some([ status   |-> "processing",
                                                 progress |-> jobs[t].progress ])])
    /\ UNCHANGED <<fs, activeConversions>>
    /\ UNCHANGED callerVars

\* on('progress')
EngineProgress(t) ==
    /\ t \in DOMAIN jobs
    /\ jobs[t].pc = "started"
    /\ \E percent \in Percents :
         jobs' = SetJob(t, [jobs[t] EXCEPT !.progress = ProgressOf(percent)])
    /\ UNCHANGED <<fs, activeConversions>>
    /\ UNCHANGED callerVars

\* the engine finishes and emits 'end'; what it left at the output path is
\* any of a sound file, an empty file, an unparsable file, or nothing
EngineEnd(t) ==
    /\ t \in DOMAIN jobs
    /\ jobs[t].pc = "started"
    /\ \E st \in {"ok", "empty", "corrupt", "absent"} :
         fs' = WriteFile(fs, jobs[t].outputPath, st)
    /\ jobs' = SetJob(t, [jobs[t] EXCEPT !.pc = "verifying"])
    /\ UNCHANGED activeConversions
    /\ UNCHANGED callerVars

\* on('end'), after the await of validateOutputFile: up to the callback
\* invocation of the try block, or of the catch block when verification failed
EndVerified(t) ==
    /\ t \in DOMAIN jobs
    /\ jobs[t].pc = "verifying"
    /\ LET verdict == ValidateOutputFile(FileAt(jobs[t].outputPath))
       IN jobs' = SetJob(t,
            IF verdict = "ok"
            THEN [jobs[t] EXCEPT !.status = "completed", !.progress = 100,
                                 !.pc = "notifyCompleted"]
            ELSE [jobs[t] EXCEPT !.status = "failed", !.error = verdict,
                                 !.pc = "notifyFailed"])
    /\ activeConversions' = activeConversions \ {t}
    /\ UNCHANGED fs
    /\ UNCHANGED callerVars

\* on('end'), try block: onProgress?.(progress) returns and the promise
\* resolves, or it throws into the catch block
NotifyCompleted(t) ==
    /\ t \in DOMAIN jobs
    /\ jobs[t].pc = "notifyCompleted"
    /\ \E threw \in Throws(jobs[t].cb) :
         jobs' = SetJob(t,
            IF threw
            THEN [jobs[t] EXCEPT !.status = "failed", !.error = "callback threw",
                                 !.pc = "notifyFailed"]
            ELSE [jobs[t] EXCEPT !.outcome = "resolved", !.pc = "done"])
    /\ activeConversions' = activeConversions \ {t}
    /\ UNCHANGED fs
    /\ UNCHANGED callerVars

\* on('end'), catch block: onProgress?.(progress) returns and the promise
\* is rejected, or it throws and the handler ends without settling it
NotifyFailed(t) ==
    /\ t \in DOMAIN jobs
    /\ jobs[t].pc = "notifyFailed"
    /\ \E threw \in Throws(jobs[t].cb) :
         jobs' = SetJob(t,
            IF threw
            THEN [jobs[t] EXCEPT !.pc = "done"]
            ELSE [jobs[t] EXCEPT !.outcome = "rejected", !.message = MsgVerify,
                                 !.pc = "done"])
    /\ UNCHANGED <<fs, activeConversions>>
    /\ UNCHANGED callerVars

\* on('error'), up to the callback invocation; the engine may have left a
\* partial file at the output path
EngineError(t) ==
    /\ t \in DOMAIN jobs
    /\ jobs[t].pc = "started"
    /\ \E partial \in BOOLEAN :
         fs' = IF partial THEN WriteFile(fs, jobs[t].outputPath, "corrupt") ELSE fs
    /\ jobs' = SetJob(t, [jobs[t] EXCEPT !.status = "failed", !.error = "engine error",
                                         !.pc = "notifyError"])
    /\ activeConversions' = activeConversions \ {t}
    /\ UNCHANGED callerVars

\* on('error'): onProgress?.(progress) returns and the promise is rejected,
\* or it throws and the handler ends without settling it
NotifyError(t) ==
    /\ t \in DOMAIN jobs
    /\ jobs[t].pc = "notifyError"
    /\ \E threw \in Throws(jobs[t].cb) :
         jobs' = SetJob(t,
            IF threw
            THEN [jobs[t] EXCEPT !.pc = "done"]
            ELSE [jobs[t] EXCEPT !.outcome = "rejected", !.message = MsgEngine,
                                 !.pc = "done"])
    /\ UNCHANGED <<fs, activeConversions>>
    /\ UNCHANGED callerVars

\* FFmpegService.getConversionProgress
getConversionProgress(t) ==
    IF t \in activeConversions THEN jobs[t] ELSE None

(***************************************************************************)
(* Direct callers of convertVideo.                                         *)
(***************************************************************************)
P_out_a == Join("out", <<"a", ".", "m", "k", "v">>)
P_ro_a  == Join("ro", <<"a", ".", "m", "k", "v">>)

DirectInputs  == {P_a_mp4, P_m_mp4}
DirectOutputs == {P_out_a, P_ro_a}
\* onProgress: one that never throws (or none at all: onProgress?.() is then
\* skipped), or one that may throw on any invocation
Callbacks     == {"quiet", "throwing"}

IdleConv == [pc |-> "idle"]
IdleBatch == [pc |-> "idle"]
IdleCall == [fn |-> "none"]

\* a caller invokes convertVideo(inputPath, outputPath, options, onProgress):
\* the task id is generated and the preconditions are checked
DirectConvertVideo ==
    /\ Len(jobs) < MaxTasks
    /\ \E inputPath \in DirectInputs, outputPath \in DirectOutputs,
          overwrite \in BOOLEAN, format \in {None, Some(F_mkv)}, cb \in Callbacks :
         jobs' = Append(jobs, NewJob(inputPath, outputPath, overwrite, format, cb))
    /\ UNCHANGED <<fs, activeConversions, conv, batch, call>>

(***************************************************************************)
(* handleConvertVideo: the convert_video tool.                             *)
(***************************************************************************)
\* JavaScript truthiness of an optional string / optional number
TruthyStr(opt) == Given(opt) /\ Val(opt) # <<>>
TruthyNum(opt) == Given(opt) /\ Val(opt) # 0
\* args.overwrite || false
OrFalse(opt) == Given(opt) /\ Val(opt)

Converted == <<"_", "c", "o", "n", "v", "e", "r", "t", "e", "d">>

\* the output path convert_video uses: the caller's, or
\* <inputDir>/<inputName>_converted.<format>
ResolveOutputPath(args) ==
    IF Given(args.outputPath) THEN Val(args.outputPath)
    ELSE Join(args.inputPath.dir,
              ParseName(args.inputPath.base) \o Converted \o Dot \o Val(args.outputFormat))

\* the checks of handleConvertVideo in the order the code makes them, each
\* optional argument checked only when it is truthy: "ok" or the first error
ConvertValidation(args) ==
    IF validateVideoFile(args.inputPath) # "ok" THEN "input file validation failed"
    ELSE IF validateOutputFormat(args.outputFormat) # "ok" THEN "unsupported output format"
    ELSE IF validateOutputPath(ResolveOutputPath(args), OrFalse(args.overwrite)) # "ok"
    THEN validateOutputPath(ResolveOutputPath(args), OrFalse(args.overwrite))
    ELSE IF TruthyStr(args.resolution) /\ ~validateResolution(Val(args.resolution)).isValid
    THEN validateResolution(Val(args.resolution)).error
    ELSE IF TruthyNum(args.videoBitrate)
            /\ validateBitrate(Val(args.videoBitrate), "video") # "ok"
    THEN validateBitrate(Val(args.videoBitrate), "video")
    ELSE IF TruthyNum(args.audioBitrate)
            /\ validateBitrate(Val(args.audioBitrate), "audio") # "ok"
    THEN validateBitrate(Val(args.audioBitrate), "audio")
    ELSE IF TruthyNum(args.frameRate) /\ validateFrameRate(Val(args.frameRate)) # "ok"
    THEN validateFrameRate(Val(args.frameRate))
    ELSE "ok"

\* conversionOptions as handleConvertVideo builds it: only truthy arguments
\* are copied
ConversionOptions(args) ==
    [ outputFormat |-> args.outputFormat,
      overwrite    |-> OrFalse(args.overwrite),
      resolution   |-> IF TruthyStr(args.resolution)
                       THEN Some([width  |-> validateResolution(Val(args.resolution)).width,
                                  height |-> validateResolution(Val(args.resolution)).height])
                       ELSE None,
      videoBitrate |-> IF TruthyNum(args.videoBitrate) THEN args.videoBitrate ELSE None,
      audioBitrate |-> IF TruthyNum(args.audioBitrate) THEN args.audioBitrate ELSE None,
      frameRate    |-> IF TruthyNum(args.frameRate) THEN args.frameRate ELSE None ]

\* getVideoInfo(p): ffprobe parses the file
ProbeOk(p) == FileAt(p) \in {"ok", "huge"}

P_out_CON == Join("out", <<"C", "O", "N", ".", "m", "k", "v">>)
P_a_conv  == Join("in", <<"a">> \o Converted \o Dot \o F_mkv)

R_1080 == <<"1", "9", "2", "0", "x", "1", "0", "8", "0">>
R_0x100 == <<"0", "x", "1", "0", "0">>

\* the requests convert_video is tried on
ConvertArgs ==
    [ inputPath    : {P_a_mp4, P_c_mp4, P_n_txt, P_m_mp4},
      outputFormat : {Some(F_mkv), Some(F_flv), Some(F_gif)},
      outputPath   : {None, Some(P_out_a), Some(P_ro_a), Some(P_out_CON), Some(P_a_mp4)},
      overwrite    : {None, Some(FALSE), Some(TRUE)},
      resolution   : {None, Some(<<>>), Some(R_1080), Some(R_0x100)},
      videoBitrate : {None, Some(0), Some(-1), Some(2500), Some(50001)},
      audioBitrate : {None, Some(0), Some(128), Some(321)},
      frameRate    : {None, Some(0), Some(30), Some(121)} ]

Failure(args, error, probes) ==
    [pc |-> "returned", args |-> args, success |-> FALSE, error |-> error,
     probes |-> probes, task |-> 0]

\* convert_video is called: every check up to the construction of the
\* conversion options
ReceiveConvert ==
    /\ conv.pc = "idle"
    /\ \E args \in ConvertArgs :
         conv' = IF ConvertValidation(args) # "ok"
                 THEN Failure(args, ConvertValidation(args), 0)
                 ELSE [pc |-> "validated", args |-> args, success |-> FALSE,
                       error |-> "", probes |-> 0, task |-> 0]
    /\ UNCHANGED <<jobVars, batch, call>>

\* const inputInfo = await ffmpegService.getVideoInfo(args.inputPath)
ProbeInput ==
    /\ conv.pc = "validated"
    /\ conv' = IF ProbeOk(conv.args.inputPath)
               THEN [conv EXCEPT !.pc = "probed", !.probes = 1]
               ELSE Failure(conv.args, "conversion failed", 1)
    /\ UNCHANGED <<jobVars, batch, call>>

\* ffmpegService.convertVideo(args.inputPath, outputPath, conversionOptions,
\* progress => console.log(...)) is called
CallConvert ==
    /\ conv.pc = "probed"
    /\ jobs' = Append(jobs,
                 NewJob(conv.args.inputPath, ResolveOutputPath(conv.args),
                        ConversionOptions(conv.args).overwrite,
                        ConversionOptions(conv.args).outputFormat, "quiet"))
    /\ conv' = [conv EXCEPT !.pc = "converting", !.task = Len(jobs) + 1]
    /\ UNCHANGED <<fs, activeConversions, batch, call>>

\* the await of convertVideo ends: a rejection is caught and reported,
\* a result goes on to the probe of the output
AfterConvert ==
    /\ conv.pc = "converting"
    /\ jobs[conv.task].outcome # "pending"
    /\ conv' = IF jobs[conv.task].outcome = "resolved"
               THEN [conv EXCEPT !.pc = "probingOutput"]
               ELSE [Failure(conv.args, "conversion failed", conv.probes)
                       EXCEPT !.task = conv.task]
    /\ UNCHANGED <<jobVars, batch, call>>

\* const outputInfo = await ffmpegService.getVideoInfo(result); the response
ProbeOutput ==
    /\ conv.pc = "probingOutput"
    /\ conv' = IF ProbeOk(jobs[conv.task].outputPath)
               THEN [conv EXCEPT !.pc = "returned", !.success = TRUE,
                                 !.probes = conv.probes + 1]
               ELSE [conv EXCEPT !.pc = "returned", !.error = "conversion failed",
                                 !.probes = conv.probes + 1]
    /\ UNCHANGED <<jobVars, batch, call>>

(***************************************************************************)
(* handleBatchConvert: the batch_convert tool.                             *)
(***************************************************************************)
\* validateInputFiles: the valid paths, in input order
ValidFiles(files) == SelectSeq(files, LAMBDA f : validateVideoFile(f) = "ok")

\* a validateInputFiles that gives up at the first bad entry
InvalidFilesFirstOnly(files) ==
    LET bad == SelectSeq(files, LAMBDA f : validateVideoFile(f) # "ok")
    IN [k \in 1..(IF Len(bad) = 0 THEN 0 ELSE 1) |->
          [path |-> bad[k], error |-> validateVideoFile(bad[k])]]

\* validateInputFiles: the invalid paths with their reasons, in input order
InvalidFiles(files) ==
    LET bad == SelectSeq(files, LAMBDA f : validateVideoFile(f) # "ok")
    IN [k \in 1..Len(bad) |-> [path |-> bad[k], error |-> validateVideoFile(bad[k])]]

\* the conversion tasks: one per valid file, written to
\* <outputDir>/<name>.<format>
ConversionTasks(valid, outputDir, format) ==
    [k \in 1..Len(valid) |->
        [ inputPath  |-> valid[k],
          outputPath |-> Join(outputDir, ParseName(valid[k].base) \o Dot \o format),
          status     |-> "pending" ]]


\* a pre-scan that stops at the first existing output path
ConflictsFirstOnly(tasks) ==
    LET hit == SelectSeq(tasks, LAMBDA task : Exists(task.outputPath))
    IN IF Len(hit) = 0 THEN <<>> ELSE <<hit[1].outputPath>>

\* the conflict pre-scan: the output paths that exist, in task order
Conflicts(tasks) ==
    LET hit == SelectSeq(tasks, LAMBDA task : Exists(task.outputPath))
    IN [k \in 1..Len(hit) |-> hit[k].outputPath]

\* the early exits of handleBatchConvert, in the order the code takes them:
\* "ok" or the error
BatchValidation(args) ==
    IF ~Given(args.inputFiles) \/ Len(Val(args.inputFiles)) = 0
    THEN "input file list is empty"
    ELSE IF validateOutputFormat(args.outputFormat) # "ok"
    THEN "unsupported output format"
    ELSE IF Len(ValidFiles(Val(args.inputFiles))) = 0
    THEN "no valid input files"
    ELSE IF validateOutputPath(Join(args.outputDir, <<"t", "e", "s", "t", ".", "t", "m", "p">>),
                               TRUE) # "ok"
    THEN "output directory validation failed"
    ELSE IF /\ ~OrFalse(args.overwrite)
            /\ Len(Conflicts(ConversionTasks(ValidFiles(Val(args.inputFiles)),
                                             args.outputDir, Val(args.outputFormat)))) > 0
    THEN "output files exist"
    ELSE "ok"

\* whether handleBatchConvert got as far as validateInputFiles
FilesValidated(args) ==
    BatchValidation(args) \notin {"input file list is empty", "unsupported output format"}

BatchCandidates == {P_a_mp4, P_b_avi, P_n_txt, P_m_mp4}

P_out_b == Join("out", <<"b", ".", "m", "k", "v">>)

\* the requests batch_convert is tried on
BatchArgs ==
    [ inputFiles   : {None} \cup
                     { Some(l) : l \in UNION { [1..n -> BatchCandidates] : n \in 0..MaxBatch } },
      outputFormat : {Some(F_mkv), Some(F_flv), Some(F_gif)},
      outputDir    : {"out", "ro"},
      overwrite    : {None, Some(FALSE), Some(TRUE)} ]

\* batch_convert is called: every step before the conversion loop
ReceiveBatchFrom(requests) ==
    /\ batch.pc = "idle"
    /\ \E args \in requests :
         LET verdict == BatchValidation(args)
             files == IF FilesValidated(args) THEN Val(args.inputFiles) ELSE <<>>
             tasks == IF verdict \in {"ok", "output files exist"}
                      THEN ConversionTasks(ValidFiles(files), args.outputDir,
                                           Val(args.outputFormat))
                      ELSE <<>>
         IN batch' =
              [ pc           |-> IF verdict = "ok" THEN "looping" ELSE "returned",
                args         |-> args,
                validated    |-> Len(files),
                validFiles   |-> ValidFiles(files),
                invalidFiles |-> InvalidFiles(files),
                tasks        |-> tasks,
                conflicts    |-> IF verdict = "output files exist"
                                 THEN Conflicts(tasks) ELSE <<>>,
                i            |-> 1,
                task         |-> 0,
                results      |-> <<>>,
                errors       |-> <<>>,
                success      |-> FALSE,
                message      |-> "",
                error        |-> IF verdict = "ok" THEN "" ELSE verdict,
                report       |-> None ]
    /\ UNCHANGED <<jobVars, conv, call>>


\* a loop body that calls convertVideo without awaiting it
BatchCallWithoutAwait ==
    /\ batch.pc = "looping"
    /\ batch.i <= Len(batch.tasks)
    /\ jobs' = Append(jobs,
                 NewJob(batch.tasks[batch.i].inputPath, batch.tasks[batch.i].outputPath,
                        OrFalse(batch.args.overwrite), batch.args.outputFormat, "quiet"))
    /\ batch' = [batch EXCEPT !.i = batch.i + 1, !.task = Len(jobs) + 1,
                              !.tasks[batch.i].status = "processing"]
    /\ UNCHANGED <<fs, activeConversions, conv, call>>

ReceiveBatch == ReceiveBatchFrom(BatchArgs)

\* input files whose names meet in the output directory or are no legal
\* output names: in/a.avi beside in/a.mp4, in/CON.mp4 and in/a?.mp4
P_a_avi == Join("in", <<"a", ".", "a", "v", "i">>)
P_CON_mp4 == Join("in", <<"C", "O", "N", ".", "m", "p", "4">>)
P_q_mp4 == Join("in", <<"a", "?", ".", "m", "p", "4">>)

NamedInputFiles ==
    InputFiles @@ [p \in {P_a_avi, P_CON_mp4, P_q_mp4} |-> "ok"]

\* batch_convert requests on those files
NamedBatchArgs ==
    [ inputFiles   : { Some(l) : l \in UNION { [1..n -> {P_a_mp4, P_a_avi, P_CON_mp4, P_q_mp4}]
                                               : n \in 1..MaxNamedBatch } },
      outputFormat : {Some(F_mkv)},
      outputDir    : {"out"},
      overwrite    : {None, Some(TRUE)} ]

ReceiveNamedBatch == ReceiveBatchFrom(NamedBatchArgs)

\* the loop body up to the await: task.status = 'processing' and convertVideo
\* is called with the shared options and a logging callback
BatchCall ==
    /\ batch.pc = "looping"
    /\ batch.i <= Len(batch.tasks)
    /\ jobs' = Append(jobs,
                 NewJob(batch.tasks[batch.i].inputPath, batch.tasks[batch.i].outputPath,
                        OrFalse(batch.args.overwrite), batch.args.outputFormat, "quiet"))
    /\ batch' = [batch EXCEPT !.pc = "awaiting", !.task = Len(jobs) + 1,
                              !.tasks[batch.i].status = "processing"]
    /\ UNCHANGED <<fs, activeConversions, conv, call>>


\* a loop that a rejection ends
BatchSettledStoppingOnFailure ==
    /\ batch.pc = "awaiting"
    /\ jobs[batch.task].outcome # "pending"
    /\ batch' =
         IF jobs[batch.task].outcome = "resolved"
         THEN [batch EXCEPT !.pc = "looping", !.i = batch.i + 1,
                            !.tasks[batch.i].status = "completed",
                            !.results = Append(batch.results, jobs[batch.task].outputPath)]
         ELSE [batch EXCEPT !.pc = "looping", !.i = Len(batch.tasks) + 1,
                            !.tasks[batch.i].status = "failed",
                            !.errors = Append(batch.errors,
                                 [file  |-> batch.tasks[batch.i].inputPath,
                                  error |-> jobs[batch.task].message])]
    /\ UNCHANGED <<jobVars, conv, call>>

\* the await ends: the result is pushed, or the rejection is caught and an
\* error entry pushed; the loop goes on either way
BatchSettled ==
    /\ batch.pc = "awaiting"
    /\ jobs[batch.task].outcome # "pending"
    /\ batch' =
         IF jobs[batch.task].outcome = "resolved"
         THEN [batch EXCEPT !.pc = "looping", !.i = batch.i + 1,
                            !.tasks[batch.i].status = "completed",
                            !.results = Append(batch.results, jobs[batch.task].outputPath)]
         ELSE [batch EXCEPT !.pc = "looping", !.i = batch.i + 1,
                            !.tasks[batch.i].status = "failed",
                            !.errors = Append(batch.errors,
                                 [file  |-> batch.tasks[batch.i].inputPath,
                                  error |-> jobs[batch.task].message])]
    /\ UNCHANGED <<jobVars, conv, call>>


\* a classification that never sees a partial success
isPartialSuccessNever(results, errors) == FALSE

\* const isPartialSuccess = results.length > 0 && errors.length > 0
isPartialSuccess(results, errors) == Len(results) > 0 /\ Len(errors) > 0

\* const isCompleteSuccess = results.length > 0 && errors.length === 0
isCompleteSuccess(results, errors) == Len(results) > 0 /\ Len(errors) = 0

\* the message of the response: complete, partial or failed
BatchMessage(results, errors) ==
    IF isCompleteSuccess(results, errors) THEN "batch conversion complete"
    ELSE IF isPartialSuccess(results, errors) THEN "batch conversion partly complete"
    ELSE "batch conversion failed"

\* a report whose total counts the valid files only
BatchReportCountingValidOnly ==
    /\ batch.pc = "looping"
    /\ batch.i > Len(batch.tasks)
    /\ batch' = [batch EXCEPT
         !.pc = "returned",
         !.success = isCompleteSuccess(batch.results, batch.errors)
                       \/ isPartialSuccess(batch.results, batch.errors),
         !.message = BatchMessage(batch.results, batch.errors),
         !.report = Some([ total     |-> Len(batch.validFiles),
                           valid     |-> Len(batch.validFiles),
                           succeeded |-> Len(batch.results),
                           failed    |-> Len(batch.errors),
                           invalid   |-> Len(batch.invalidFiles) ])]
    /\ UNCHANGED <<jobVars, conv, call>>

\* after the loop: the report and the classification
BatchReport ==
    /\ batch.pc = "looping"
    /\ batch.i > Len(batch.tasks)
    /\ batch' = [batch EXCEPT
         !.pc = "returned",
         !.success = isCompleteSuccess(batch.results, batch.errors)
                       \/ isPartialSuccess(batch.results, batch.errors),
         !.message = BatchMessage(batch.results, batch.errors),
         !.report = Some([ total     |-> Len(Val(batch.args.inputFiles)),
                           valid     |-> Len(batch.validFiles),
                           succeeded |-> Len(batch.results),
                           failed    |-> Len(batch.errors),
                           invalid   |-> Len(batch.invalidFiles) ])]
    /\ UNCHANGED <<jobVars, conv, call>>

(***************************************************************************)
(* The engine command: the directives applyConversionOptions compiles, in  *)
(* the order the code emits them.  A directive is a record: k is its name  *)
(* and v its text for codecs and addOption, n its number for the bitrate   *)
(* and fps calls, w and h the two numbers of a size.                       *)
(***************************************************************************)
\* command.videoCodec / audioCodec / addOption(name, text)
Opt(name, text) == [k |-> name, v |-> text]
\* command.videoBitrate / audioBitrate / fps (number)
Num(name, number) == [k |-> name, n |-> number]
\* command.size(`${width}x${height}`)
Size(resolution) == [k |-> "size", w |-> resolution.width, h |-> resolution.height]

\* the default branch of setCodecsForFormat
DefaultCodecs ==
    << Opt("videoCodec", "libx264"), Opt("audioCodec", "aac"),
       Opt("-preset", "medium"), Opt("-crf", "23") >>

\* a setCodecsForFormat whose switch has no default branch
setCodecsForFormatWithoutDefault(command, format) ==
    LET x264 == << Opt("videoCodec", "libx264"), Opt("audioCodec", "aac"),
                   Opt("-preset", "medium") >>
        f == ToLower(format)
    IN command \o
       ( IF f \in {F_mp4, F_avi, F_mov, F_mkv, F_wmv, F_m4v, F_flv, F_webm}
         THEN x264 \o << Opt("-crf", "23"), Opt("-f", "forced") >>
         ELSE <<>> )

\* setCodecsForFormat(command, format)
setCodecsForFormat(command, format) ==
    LET x264 == << Opt("videoCodec", "libx264"), Opt("audioCodec", "aac"),
                   Opt("-preset", "medium") >>
        f == ToLower(format)
    IN command \o
       ( IF f = F_mp4 THEN
           x264 \o << Opt("-crf", "23"),
                      Opt("-movflags", "+faststart+frag_keyframe+empty_moov"),
                      Opt("-f", "mp4"), Opt("-pix_fmt", "yuv420p"),
                      Opt("-profile:v", "high"), Opt("-level", "4.0") >>
         ELSE IF f = F_avi THEN
           x264 \o << Opt("-crf", "23"), Opt("-f", "avi") >>
         ELSE IF f = F_mov THEN
           x264 \o << Opt("-crf", "23"), Opt("-movflags", "+faststart"), Opt("-f", "mov") >>
         ELSE IF f = F_webm THEN
           << Opt("videoCodec", "libvpx-vp9"), Opt("audioCodec", "libopus"),
              Opt("-crf", "30"), Opt("-b:v", "0"), Opt("-row-mt", "1"),
              Opt("-f", "webm"), Opt("-deadline", "good"), Opt("-cpu-used", "1") >>
         ELSE IF f = F_mkv THEN
           x264 \o << Opt("-crf", "23"), Opt("-f", "matroska") >>
         ELSE IF f = F_flv THEN
           x264 \o << Opt("-crf", "25"), Opt("-f", "flv") >>
         ELSE IF f = F_wmv THEN
           x264 \o << Opt("-crf", "25"), Opt("-f", "asf"),
                      Opt("-avoid_negative_ts", "make_zero"),
                      Opt("-fflags", "+genpts+igndts"),
                      Opt("-use_wallclock_as_timestamps", "1"),
                      Opt("-metadata", "title=\"\"") >>
         ELSE IF f = F_m4v THEN
           x264 \o << Opt("-crf", "23"), Opt("-f", "mp4"),
                      Opt("-movflags", "+faststart+frag_keyframe+empty_moov"),
                      Opt("-brand", "M4V "), Opt("-pix_fmt", "yuv420p"),
                      Opt("-profile:v", "high"), Opt("-level", "4.0"),
                      Opt("-write_tmcd", "0") >>
         ELSE DefaultCodecs )


\* usesCRF: the formats whose rate control is the quality factor
crfFormats == {F_mp4, F_avi, F_mov, F_webm, F_mkv, F_flv, F_wmv, F_m4v}

\* a usesCRF whose list lacks flv
usesCRFWithoutFlv(format) == ToLower(format) \in crfFormats \ {F_flv}

\* usesCRF(format)
usesCRF(format) == ToLower(format) \in crfFormats

\* getQualityPresets
getQualityPresets ==
    [ low    |-> [videoBitrate |-> 1000, audioBitrate |-> 96],
      medium |-> [videoBitrate |-> 2500, audioBitrate |-> 128],
      high   |-> [videoBitrate |-> 5000, audioBitrate |-> 192],
      ultra  |-> [videoBitrate |-> 8000, audioBitrate |-> 320] ]

\* a bitrateToQuality with strict thresholds
bitrateToQualityStrict(bitrate) ==
    IF bitrate > 8000 THEN 18
    ELSE IF bitrate > 5000 THEN 21
    ELSE IF bitrate > 2500 THEN 23
    ELSE 25

\* bitrateToQuality(bitrate)
bitrateToQuality(bitrate) ==
    IF bitrate >= 8000 THEN 18
    ELSE IF bitrate >= 5000 THEN 21
    ELSE IF bitrate >= 2500 THEN 23
    ELSE 25

\* applyQualityPreset(command, quality): nothing for a name that is no preset
applyQualityPreset(command, quality) ==
    IF quality \in DOMAIN getQualityPresets
    THEN LET preset == getQualityPresets[quality]
         IN command
            \o ( IF preset.videoBitrate # 0
                 THEN << Opt("-crf", ToString(bitrateToQuality(preset.videoBitrate))) >>
                 ELSE <<>> )
            \o ( IF preset.audioBitrate # 0
                 THEN << Num("audioBitrate", preset.audioBitrate) >>
                 ELSE <<>> )
    ELSE command

\* applyConversionOptions(command, options)
applyConversionOptions(command, options) ==
    LET c1 == setCodecsForFormat(command, Val(options.outputFormat))
        c2 == IF Given(options.quality) /\ Val(options.quality) # ""
              THEN applyQualityPreset(c1, Val(options.quality)) ELSE c1
        c3 == IF Given(options.resolution)
              THEN Append(c2, Size(Val(options.resolution))) ELSE c2
        c4 == IF TruthyNum(options.videoBitrate) /\ ~usesCRF(Val(options.outputFormat))
              THEN Append(c3, Num("videoBitrate", Val(options.videoBitrate))) ELSE c3
        c5 == IF TruthyNum(options.audioBitrate)
              THEN Append(c4, Num("audioBitrate", Val(options.audioBitrate))) ELSE c4
        c6 == IF TruthyNum(options.frameRate)
              THEN Append(c5, Num("fps", Val(options.frameRate))) ELSE c5
    IN c6 \o << Opt("-avoid_negative_ts", "make_zero"), Opt("-fflags", "+genpts"),
                Opt("-max_muxing_queue_size", "1024") >>

F_MP4 == <<"M", "P", "4">>

\* the options applyConversionOptions is tried on
CompileOptions ==
    [ outputFormat : { Some(f) : f \in {F_mp4, F_avi, F_mov, F_wmv, F_mkv, F_webm,
                                        F_m4v, F_flv, F_gif, F_MP4} },
      quality      : {None, Some("low"), Some("medium"), Some("high"), Some("ultra"),
                      Some("best")},
      resolution   : {None, Some([width |-> 1280, height |-> 720])},
      videoBitrate : {None, Some(0), Some(4000)},
      audioBitrate : {None, Some(0), Some(160)},
      frameRate    : {None, Some(24)} ]

\* convertVideo builds the command of a job: ffmpeg(inputPath), then
\* applyConversionOptions
CallApplyConversionOptions ==
    /\ call = IdleCall
    /\ \E options \in CompileOptions :
         call' = [ fn      |-> "applyConversionOptions",
                   options |-> options,
                   command |-> applyConversionOptions(<<>>, options) ]
    /\ UNCHANGED <<jobVars, conv, batch>>


(***************************************************************************)
(* Calls of the ValidatorService checks on their own.                      *)
(***************************************************************************)
\* every string over an alphabet, up to a length
RECURSIVE StringsUpTo(_, _)
StringsUpTo(alphabet, n) ==
    IF n = 0 THEN {<<>>}
    ELSE LET shorter == StringsUpTo(alphabet, n - 1)
         IN shorter \cup { Append(s, c) : s \in shorter, c \in alphabet }

\* the resolution strings validateResolution is tried on
ResolutionStrings ==
    StringsUpTo({"0", "7", "x", "a"}, MaxResolutionLen)
    \cup { <<"1", "x", "1">>, <<"1", "9", "2", "0", "x", "1", "0", "8", "0">>,
           <<"7", "6", "8", "0", "x", "4", "3", "2", "0">>,
           <<"7", "6", "8", "1", "x", "4", "3", "2", "0">>,
           <<"7", "6", "8", "0", "x", "4", "3", "2", "1">>,
           <<"1", "x", "4", "3", "2", "0">>, <<"7", "6", "8", "0", "x", "1">>,
           <<"0", "1", "0", "0", "x", "0", "1", "0", "0">>,
           <<"1", "9", "2", "0", "X", "1", "0", "8", "0">>,
           <<"1", "9", "2", "0", "x", "1", "0", "8", "0", "p">>,
           <<"-", "1", "x", "5">>, <<"1", "2", " ", "x", " ", "5">>,
           <<"1", "x", "2", "x", "3">>, <<"1", ".", "5", "x", "2">> }

CallValidateResolution ==
    /\ call = IdleCall
    /\ \E s \in ResolutionStrings :
         call' = [fn |-> "validateResolution", arg |-> s, result |-> validateResolution(s)]
    /\ UNCHANGED <<jobVars, conv, batch>>

\* the numbers validateBitrate and validateFrameRate are tried on
RateValues == {-1, 0, 1, 30, 120, 121, 320, 321, 50000, 50001}

CallValidateBitrate ==
    /\ call = IdleCall
    /\ \E b \in RateValues, type \in {"video", "audio"} :
         call' = [ fn |-> "validateBitrate", arg |-> b, type |-> type,
                   result |-> validateBitrate(b, type) ]
    /\ UNCHANGED <<jobVars, conv, batch>>

CallValidateFrameRate ==
    /\ call = IdleCall
    /\ \E f \in RateValues :
         call' = [fn |-> "validateFrameRate", arg |-> f, result |-> validateFrameRate(f)]
    /\ UNCHANGED <<jobVars, conv, batch>>

UpperChar(c) ==
    IF \E i \in 1..26 : Lower[i] = c
    THEN Upper[CHOOSE i \in 1..26 : Lower[i] = c]
    ELSE c

ToUpper(s) == [i \in 1..Len(s) |-> UpperChar(s[i])]

\* the file names validateOutputPath is tried on: every reserved name in
\* lower, upper and mixed case, bare and with extensions, and names that only
\* begin like one
FileNames ==
    LET cased == UNION { { r, ToUpper(r), <<UpperChar(r[1])>> \o SubSeq(r, 2, Len(r)) }
                         : r \in ReservedNames }
        ext == <<".", "m", "p", "4">>
    IN cased
       \cup { n \o ext : n \in cased }
       \cup { n \o <<".", "t", "a", "r", ".", "g", "z">> : n \in cased }
       \cup { n \o <<".">> : n \in cased }
       \cup { n \o <<"S", "O", "L", "E">> \o ext : n \in cased }
       \cup { n \o <<"0">> \o ext : n \in cased }
       \cup { <<"a">> \o n \o ext : n \in cased }
       \cup { <<"a", ".">> \o n : n \in cased }
       \cup { <<"c", "o", "m", ".", "m", "p", "4">>, <<"L", "P", "T", "0">>,
              <<"a", ".", "m", "p", "4">>, <<"a", "?", ".", "m", "p", "4">>, <<>> }

CallValidateOutputPath ==
    /\ call = IdleCall
    /\ \E name \in FileNames, dir \in {"out", "in"}, overwrite \in BOOLEAN :
         call' = [ fn |-> "validateOutputPath", arg |-> Join(dir, name),
                   overwrite |-> overwrite,
                   result |-> validateOutputPath(Join(dir, name), overwrite) ]
    /\ UNCHANGED <<jobVars, conv, batch>>


(***************************************************************************)
(* Numbers of the probe.  A JavaScript number is a record: nan tells       *)
(* whether it is NaN, h is its value in hundredths.                        *)
(***************************************************************************)
NaN == [nan |-> TRUE, h |-> 0]
Hundredths(n) == [nan |-> FALSE, h |-> n]
\* a number in a condition: false for 0 and for NaN
Truthy(x) == ~x.nan /\ x.h # 0

\* the hundredths a fraction string stands for: its first two digits
FractionVal(s) ==
    IF Len(s) = 0 THEN 0
    ELSE IF Len(s) = 1 THEN 10 * DigitVal(s[1])
    ELSE 10 * DigitVal(s[1]) + DigitVal(s[2])

\* whether s is digits, or digits "." digits
IsDecimal(s) ==
    \/ IsDigits(s)
    \/ \E i \in 2..(Len(s) - 1) :
         /\ s[i] = "."
         /\ IsDigits(SubSeq(s, 1, i - 1))
         /\ IsDigits(SubSeq(s, i + 1, Len(s)))

\* the value of a string that IsDecimal
DecimalVal(s) ==
    IF IsDigits(s) THEN 100 * ParseInt(s)
    ELSE LET i == CHOOSE j \in 1..Len(s) : s[j] = "."
         IN 100 * ParseInt(SubSeq(s, 1, i - 1)) + FractionVal(SubSeq(s, i + 1, Len(s)))

\* Number(s): 0 for the empty string, NaN for what is no number
NumberOf(s) ==
    IF s = <<>> THEN Hundredths(0)
    ELSE IF IsDecimal(s) THEN Hundredths(DecimalVal(s))
    ELSE NaN

\* parseFloat(s): the longest prefix that is a number, NaN without one
parseFloat(s) ==
    LET prefixes == { n \in 1..Len(s) : IsDecimal(SubSeq(s, 1, n)) }
    IN IF prefixes = {} THEN NaN
       ELSE Hundredths(DecimalVal(SubSeq(s, 1, CHOOSE n \in prefixes :
                                                   \A m \in prefixes : m <= n)))

\* parseInt(s): the digits s begins with, NaN without one
parseInt(s) ==
    LET prefixes == { n \in 1..Len(s) : IsDigits(SubSeq(s, 1, n)) }
    IN IF prefixes = {} THEN NaN
       ELSE Hundredths(100 * ParseInt(SubSeq(s, 1, CHOOSE n \in prefixes :
                                                      \A m \in prefixes : m <= n)))

\* Math.round(a / b) for b # 0: the nearest integer, a half going up
RoundDiv(a, b) ==
    IF b > 0 THEN (2 * a + b) \div (2 * b) ELSE (2 * (0 - a) - b) \div (2 * (0 - b))

\* frameRateStr.split('/'): the parts between the slashes
SplitSlash(s) ==
    LET cuts == { i \in 1..Len(s) : s[i] = "/" }
        first == CHOOSE i \in cuts : \A j \in cuts : i <= j
        later == { i \in cuts : i > first }
        second == IF later = {} THEN Len(s) + 1
                  ELSE CHOOSE i \in later : \A j \in later : i <= j
    IN << SubSeq(s, 1, first - 1), SubSeq(s, first + 1, second - 1) >>

\* parseFrameRate(frameRateStr), the argument an option
parseFrameRate(frameRateStr) ==
    IF ~Given(frameRateStr) \/ Val(frameRateStr) = <<>> THEN Hundredths(0)
    ELSE IF "/" \in Range(Val(frameRateStr))
    THEN LET num == NumberOf(SplitSlash(Val(frameRateStr))[1])
             den == NumberOf(SplitSlash(Val(frameRateStr))[2])
         IN IF Truthy(den)
            THEN IF num.nan THEN NaN ELSE Hundredths(RoundDiv(num.h * 100, den.h))
            ELSE Hundredths(0)
    ELSE IF Truthy(parseFloat(Val(frameRateStr))) THEN parseFloat(Val(frameRateStr))
    ELSE Hundredths(0)

\* the frame-rate strings parseFrameRate is tried on
FrameRateStrings ==
    { None, Some(<<>>),
      Some(<<"3", "0", "/", "1">>), Some(<<"3", "0", "0", "0", "0", "/", "1", "0", "0", "1">>),
      Some(<<"1", "5", "/", "2">>), Some(<<"1", "/", "3">>), Some(<<"0", "/", "1">>),
      Some(<<"2", "5">>), Some(<<"2", "9", ".", "9", "7">>), Some(<<"2", "5", "f", "p", "s">>),
      Some(<<"0", "/", "0">>), Some(<<"3", "0", "/", "0">>),
      Some(<<"a", "b", "c", "/", "2">>), Some(<<"3", "0", "/", "a", "b", "c">>),
      Some(<<"a", "b", "c">>), Some(<<"N", "/", "A">>), Some(<<"/">>),
      Some(<<"3", "0", "/">>), Some(<<"/", "5">>), Some(<<"0">>) }

CallParseFrameRate ==
    /\ call = IdleCall
    /\ \E s \in FrameRateStrings :
         call' = [fn |-> "parseFrameRate", arg |-> s, result |-> parseFrameRate(s)]
    /\ UNCHANGED <<jobVars, conv, batch>>


(***************************************************************************)
(* The probe.  A field of the ffprobe metadata is undefined, a number or a *)
(* string.                                                                 *)
(***************************************************************************)
Undef == [t |-> "undef"]
NumField(n) == [t |-> "num", x |-> Hundredths(n)]
StrField(s) == [t |-> "str", s |-> s]

\* a metadata field in a condition
TruthyField(f) ==
    IF f.t = "undef" THEN FALSE
    ELSE IF f.t = "num" THEN Truthy(f.x)
    ELSE f.s # <<>>

\* parseFloat(field): the argument is turned into a string first
parseFloatField(f) == IF f.t = "num" THEN f.x ELSE parseFloat(f.s)
\* parseInt(field)
parseIntField(f) ==
    IF f.t = "num" THEN Hundredths(100 * (f.x.h \div 100)) ELSE parseInt(f.s)

\* getVideoInfo: the duration it reports for the metadata of a file
ResolveDuration(metadata) ==
    LET videoStream == metadata.video
        audioStream == metadata.audio
        d0 == IF TruthyField(metadata.format.duration)
              THEN metadata.format.duration.x ELSE Hundredths(0)
        d1 == IF ~Truthy(d0)
              THEN IF Given(videoStream) /\ TruthyField(Val(videoStream).duration)
                   THEN parseFloatField(Val(videoStream).duration)
                   ELSE IF Given(audioStream) /\ TruthyField(Val(audioStream).duration)
                   THEN parseFloatField(Val(audioStream).duration)
                   ELSE d0
              ELSE d0
        d2 == IF ~Truthy(d1)
              THEN IF /\ Given(videoStream)
                      /\ TruthyField(Val(videoStream).nb_frames)
                      /\ Given(Val(videoStream).r_frame_rate)
                      /\ Val(Val(videoStream).r_frame_rate) # <<>>
                   THEN LET frameCount == parseIntField(Val(videoStream).nb_frames)
                            frameRate == parseFrameRate(Val(videoStream).r_frame_rate)
                        IN IF /\ ~frameCount.nan /\ frameCount.h > 0
                              /\ ~frameRate.nan /\ frameRate.h > 0
                           THEN Hundredths(RoundDiv(frameCount.h * 100, frameRate.h))
                           ELSE d1
                   ELSE d1
              ELSE d1
    IN d2

NotAvailable == <<"N", "/", "A">>

\* the metadata getVideoInfo is tried on
Metadata ==
    [ format : [ duration : {Undef, NumField(0), NumField(2000)} ],
      video  : {None} \cup
               { Some(v) : v \in
                   [ duration     : { Undef, NumField(0), NumField(800),
                                      StrField(NotAvailable),
                                      StrField(<<"0", ".", "0", "0", "0">>) },
                     nb_frames    : {Undef, NumField(0), NumField(30000),
                                     StrField(NotAvailable)},
                     r_frame_rate : {None, Some(<<"3", "0", "/", "1">>),
                                     Some(<<"0", "/", "0">>)} ] },
      audio  : {None} \cup
               { Some(a) : a \in
                   [ duration : { Undef, NumField(0), NumField(1250),
                                  StrField(NotAvailable) } ] } ]

\* getVideoInfo(filePath): ffprobe answers with the metadata
CallGetVideoInfo ==
    /\ call = IdleCall
    /\ \E metadata \in Metadata :
         call' = [ fn |-> "getVideoInfo", metadata |-> metadata,
                   duration |-> ResolveDuration(metadata) ]
    /\ UNCHANGED <<jobVars, conv, batch>>


\* validateInputFiles(filePaths) called on a list of paths
CallValidateInputFiles ==
    /\ call = IdleCall
    /\ \E files \in UNION { [1..n -> BatchCandidates \cup {P_e_mov}] : n \in 0..MaxBatch } :
         call' = [ fn |-> "validateInputFiles", arg |-> files,
                   validFiles |-> ValidFiles(files),
                   invalidFiles |-> InvalidFiles(files) ]
    /\ UNCHANGED <<jobVars, conv, batch>>


\* sanitizeFileName: every forbidden character becomes "_", a leading
\* reserved device name becomes "_" with the "." after it kept, and the
\* result is cut to 255 characters
sanitizeFileName(name) ==
    LET cleaned == [i \in 1..Len(name) |->
                      IF name[i] \in InvalidChars THEN "_" ELSE name[i]]
        hits == { r \in ReservedNames :
                    /\ Len(cleaned) >= Len(r)
                    /\ SubSeq(ToLower(cleaned), 1, Len(r)) = r
                    /\ (Len(cleaned) = Len(r) \/ cleaned[Len(r) + 1] = ".") }
        renamed == IF hits = {} THEN cleaned
                   ELSE LET r == CHOOSE r \in hits : TRUE
                        IN <<"_">> \o SubSeq(cleaned, Len(r) + 1, Len(cleaned))
    IN SubSeq(renamed, 1, IF Len(renamed) < MaxFileName THEN Len(renamed) ELSE MaxFileName)

\* the strings sanitizeFileName is tried on: the file names of FileNames,
\* the empty string, names with forbidden characters, and names longer than
\* 255 characters
SanitizeInputs ==
    FileNames
    \cup StringsUpTo({"a", "?", "/", "."}, 2)
    \cup { <<"C", "O", "N", ":", "m", "p", "4">>, <<"a", "<", "b", ">", ".", "m", "k", "v">>,
           [i \in 1..(MaxFileName + 1) |-> "a"],
           <<"C", "O", "N", ".">> \o [i \in 1..MaxFileName |-> "a"],
           [i \in 1..(MaxFileName + 45) |-> IF i % 7 = 0 THEN "*" ELSE "b"] }

CallSanitizeFileName ==
    /\ call = IdleCall
    /\ \E name \in SanitizeInputs :
         call' = [ fn |-> "sanitizeFileName", arg |-> name,
                   result |-> sanitizeFileName(name) ]
    /\ UNCHANGED <<jobVars, conv, batch>>


InitJobs ==
    /\ \E pre \in SUBSET {P_out_a} :
         fs = InputFiles @@ [p \in pre |-> "ok"]
    /\ jobs = <<>>
    /\ activeConversions = {}
    /\ conv = IdleConv
    /\ batch = IdleBatch
    /\ call = IdleCall

NextJobs ==
    \/ DirectConvertVideo
    \/ \E t \in DOMAIN jobs : StartJob(t)
    \/ \E t \in DOMAIN jobs : EngineStart(t)
    \/ \E t \in DOMAIN jobs : EngineProgress(t)
    \/ \E t \in DOMAIN jobs : EngineEnd(t)
    \/ \E t \in DOMAIN jobs : EndVerified(t)
    \/ \E t \in DOMAIN jobs : NotifyCompleted(t)
    \/ \E t \in DOMAIN jobs : NotifyFailed(t)
    \/ \E t \in DOMAIN jobs : EngineError(t)
    \/ \E t \in DOMAIN jobs : NotifyError(t)

SpecJobs == InitJobs /\ [][NextJobs]_vars

\* one convert_video request, or else direct calls of convertVideo
InitConvert ==
    /\ \E pre \in {{}, {P_out_a, P_a_conv}} :
         fs = InputFiles @@ [p \in pre |-> "ok"]
    /\ jobs = <<>>
    /\ activeConversions = {}
    /\ conv = IdleConv
    /\ batch = IdleBatch
    /\ call = IdleCall

NextConvert ==
    \/ jobs = <<>> /\ ReceiveConvert
    \/ ProbeInput
    \/ CallConvert
    \/ AfterConvert
    \/ ProbeOutput
    \/ conv.pc = "idle" /\ DirectConvertVideo
    \/ \E t \in DOMAIN jobs : StartJob(t)
    \/ \E t \in DOMAIN jobs : EngineStart(t)
    \/ \E t \in DOMAIN jobs : EngineProgress(t)
    \/ \E t \in DOMAIN jobs : EngineEnd(t)
    \/ \E t \in DOMAIN jobs : EndVerified(t)
    \/ \E t \in DOMAIN jobs : NotifyCompleted(t)
    \/ \E t \in DOMAIN jobs : NotifyFailed(t)
    \/ \E t \in DOMAIN jobs : EngineError(t)
    \/ \E t \in DOMAIN jobs : NotifyError(t)

SpecConvert == InitConvert /\ [][NextConvert]_vars

\* one batch_convert request
InitBatch ==
    /\ \E pre \in SUBSET {P_out_a, P_out_b} :
         fs = InputFiles @@ [p \in pre |-> "ok"]
    /\ jobs = <<>>
    /\ activeConversions = {}
    /\ conv = IdleConv
    /\ batch = IdleBatch
    /\ call = IdleCall

NextBatch ==
    \/ ReceiveBatch
    \/ BatchCall
    \/ BatchSettled
    \/ BatchReport
    \/ \E t \in DOMAIN jobs : StartJob(t)
    \/ \E t \in DOMAIN jobs : EngineStart(t)
    \/ \E t \in DOMAIN jobs : EngineProgress(t)
    \/ \E t \in DOMAIN jobs : EngineEnd(t)
    \/ \E t \in DOMAIN jobs : EndVerified(t)
    \/ \E t \in DOMAIN jobs : NotifyCompleted(t)
    \/ \E t \in DOMAIN jobs : NotifyFailed(t)
    \/ \E t \in DOMAIN jobs : EngineError(t)
    \/ \E t \in DOMAIN jobs : NotifyError(t)

SpecBatch == InitBatch /\ [][NextBatch]_vars

(***************************************************************************)
(* The claims.                                                             *)
(***************************************************************************)
StatusEdges ==
    { <<"none", "pending">>, <<"pending", "processing">>,
      <<"processing", "completed">>, <<"processing", "failed">> }

\* C1: a job's status only moves pending -> processing -> completed or
\* failed, and a status of completed or failed never changes again, whatever
\* the engine emits and whatever the progress callback does.
C1_StatusOnlyMovesForward ==
    [][\A t \in DOMAIN jobs :
          \/ jobs'[t].status = jobs[t].status
          \/ <<jobs[t].status, jobs'[t].status>> \in StatusEdges]_vars

\* C2: when the end event is followed by a failed output verification, the
\* job ends failed and never completed, and once the end handler is through
\* convertVideo has rejected with the "conversion completed but
\* verification failed" message, which is not the engine-error message.
C2_VerificationFailureRejects ==
    \A t \in DOMAIN jobs :
        jobs[t].error \in VerificationErrors =>
            /\ jobs[t].status = "failed"
            /\ jobs[t].outcome # "resolved"
            /\ jobs[t].pc = "done" =>
                 /\ jobs[t].outcome = "rejected"
                 /\ jobs[t].message = MsgVerify
                 /\ jobs[t].message # MsgEngine

\* C3: with overwrite false or omitted and a file at the resolved output
\* path, convert_video returns a failure with no probe and no conversion
\* begun; a direct convertVideo call in that situation rejects with the job
\* neither constructed, registered nor run.
C3_ExistingOutputStopsBeforeEngine ==
    /\ [][/\ ( /\ conv.pc = "idle"
               /\ conv'.pc # "idle"
               /\ ~OrFalse(conv'.args.overwrite)
               /\ Exists(ResolveOutputPath(conv'.args)) )
             => /\ conv'.pc = "returned"
                /\ ~conv'.success
                /\ conv'.probes = 0
                /\ conv'.task = 0
                /\ jobs' = jobs
                /\ activeConversions' = activeConversions
          /\ \A t \in DOMAIN jobs' \ DOMAIN jobs :
               (~jobs'[t].overwrite /\ Exists(jobs'[t].outputPath))
               => /\ jobs'[t].outcome = "rejected"
                  /\ jobs'[t].pc = "done"
                  /\ jobs'[t].status = "none"
                  /\ ~jobs'[t].ran
                  /\ t \notin activeConversions']_vars
    /\ [](\A t \in DOMAIN jobs :
            jobs[t].message = "outputExists"
            => /\ jobs[t].outcome = "rejected"
               /\ jobs[t].status = "none"
               /\ ~jobs[t].ran
               /\ t \notin activeConversions)

\* C3 witness: convert_video has refused a request whose output file exists.
C3_Witness ==
    /\ conv.pc = "returned"
    /\ conv.error = "output file exists"
    /\ ~OrFalse(conv.args.overwrite)
    /\ Exists(ResolveOutputPath(conv.args))

\* a supplied value that a Validator check refuses (the existing-file case
\* of the output path is C3's)
RequestInvalid(args) ==
    \/ validateVideoFile(args.inputPath) # "ok"
    \/ validateOutputFormat(args.outputFormat) # "ok"
    \/ ~DirCreatable(ResolveOutputPath(args).dir)
    \/ ~isValidFileName(ResolveOutputPath(args).base)
    \/ Given(args.resolution) /\ ~validateResolution(Val(args.resolution)).isValid
    \/ Given(args.videoBitrate) /\ validateBitrate(Val(args.videoBitrate), "video") # "ok"
    \/ Given(args.audioBitrate) /\ validateBitrate(Val(args.audioBitrate), "audio") # "ok"
    \/ Given(args.frameRate) /\ validateFrameRate(Val(args.frameRate)) # "ok"

\* C4: a convert_video request with an input file, format, output path,
\* resolution, bitrate or frame rate that fails its Validator check (0,
\* negative numbers and the empty resolution included) is answered with a
\* failure, and neither a probe nor a conversion is made for it.
C4_InvalidRequestNeverReachesEngine ==
    (conv.pc # "idle" /\ RequestInvalid(conv.args))
    => /\ conv.probes = 0
       /\ conv.task = 0
       /\ conv.pc = "returned" => ~conv.success

\* C5: every registered task id belongs to a job that is pending or
\* processing, and once convertVideo has resolved or rejected for a job that
\* was registered, the registry no longer holds its task id.
C5_RegistryOnlyWhileExecuting ==
    /\ \A t \in activeConversions : jobs[t].status \in {"pending", "processing"}
    /\ \A t \in DOMAIN jobs :
         (jobs[t].outcome # "pending" /\ jobs[t].status # "none")
         => /\ t \notin activeConversions
            /\ getConversionProgress(t) = None

\* the jobs of the batch whose await has ended
SettledJobs ==
    SubSeq(jobs, 1, IF batch.pc = "awaiting" THEN Len(jobs) - 1 ELSE Len(jobs))

\* C6: once the batch loop runs, job k converts the k-th valid file, so every
\* valid file is handed over once and in input order whatever became of the
\* earlier jobs; the loop ends only with all of them handed over, and the
\* failure entries are, in order, one per rejected job, each naming that
\* job's own input file.
C6_EveryValidFileHandedOnceInOrder ==
    batch.pc # "idle" =>
      LET rejected == SelectSeq(SettledJobs, LAMBDA j : j.outcome = "rejected")
      IN /\ Len(jobs) <= Len(batch.validFiles)
         /\ \A k \in DOMAIN jobs : jobs[k].inputPath = batch.validFiles[k]
         /\ Given(batch.report) => Len(jobs) = Len(batch.validFiles)
         /\ Len(batch.errors) = Len(rejected)
         /\ \A k \in DOMAIN batch.errors : batch.errors[k].file = rejected[k].inputPath

\* C6 witness: a batch has its report after a first job that ran and failed
\* and a second that succeeded.
C6_Witness ==
    /\ batch.pc = "returned"
    /\ Given(batch.report)
    /\ Len(jobs) >= 2
    /\ jobs[1].ran
    /\ jobs[1].outcome = "rejected"
    /\ jobs[2].outcome = "resolved"
    /\ Len(batch.errors) = 1

\* C7: in every report succeeded + failed + invalid is the number of input
\* entries, valid is succeeded + failed, the succeeded list holds the output
\* path of each resolved job, and the failure and invalid entries can be
\* matched to distinct entries of the input list that carry their paths.
C7_ReportCountsConsistent ==
    (batch.pc = "returned" /\ Given(batch.report)) =>
      LET r == Val(batch.report)
          files == Val(batch.args.inputFiles)
          resolved == SelectSeq(jobs, LAMBDA j : j.outcome = "resolved")
          nE == Len(batch.errors)
          nI == Len(batch.invalidFiles)
      IN /\ r.succeeded + r.failed + r.invalid = Len(files)
         /\ r.total = Len(files)
         /\ r.valid = r.succeeded + r.failed
         /\ Len(batch.results) = r.succeeded
         /\ Len(resolved) = r.succeeded
         /\ \A k \in DOMAIN batch.results : batch.results[k] = resolved[k].outputPath
         /\ nE = r.failed
         /\ nI = r.invalid
         /\ \E f \in [1..nE -> DOMAIN files], g \in [1..nI -> DOMAIN files] :
              /\ \A k \in 1..nE : files[f[k]] = batch.errors[k].file
              /\ \A k \in 1..nI : files[g[k]] = batch.invalidFiles[k].path
              /\ \A j, k \in 1..nE : j # k => f[j] # f[k]
              /\ \A j, k \in 1..nI : j # k => g[j] # g[k]
              /\ \A j \in 1..nE, k \in 1..nI : f[j] # g[k]

\* C7 witness: a report with a success, a conversion failure and an invalid
\* file.
C7_Witness ==
    /\ batch.pc = "returned"
    /\ Given(batch.report)
    /\ Val(batch.report).succeeded = 1
    /\ Val(batch.report).failed = 1
    /\ Val(batch.report).invalid = 1

\* the output path the batch synthesizes for an input file
SynthesizedOutput(args, f) ==
    Join(args.outputDir, ParseName(f.base) \o Dot \o Val(args.outputFormat))

\* the pre-scan is reached: every earlier check of the request passed
PreScanRuns(args) ==
    /\ Given(args.inputFiles)
    /\ Len(Val(args.inputFiles)) > 0
    /\ Val(args.outputFormat) \in {F_mp4, F_avi, F_mov, F_wmv, F_mkv, F_webm, F_m4v}
    /\ \E k \in DOMAIN Val(args.inputFiles) : validateVideoFile(Val(args.inputFiles)[k]) = "ok"
    /\ DirCreatable(args.outputDir)

\* C8: when batch_convert is called with overwrite false or omitted and the
\* pre-scan finds a synthesized output path that exists, the call returns a
\* failure, no job is created, and every existing synthesized output path is
\* in the conflict list.
C8_ConflictAbortsWholeBatch ==
    /\ [][( /\ batch.pc = "idle"
            /\ batch'.pc # "idle"
            /\ ~OrFalse(batch'.args.overwrite)
            /\ PreScanRuns(batch'.args)
            /\ \E k \in DOMAIN Val(batch'.args.inputFiles) :
                 LET f == Val(batch'.args.inputFiles)[k]
                 IN validateVideoFile(f) = "ok" /\ Exists(SynthesizedOutput(batch'.args, f)) )
          => /\ batch'.pc = "returned"
             /\ ~batch'.success
             /\ jobs' = <<>>
             /\ activeConversions' = {}
             /\ \A k \in DOMAIN Val(batch'.args.inputFiles) :
                  LET f == Val(batch'.args.inputFiles)[k]
                  IN (validateVideoFile(f) = "ok" /\ Exists(SynthesizedOutput(batch'.args, f)))
                     => \E c \in DOMAIN batch'.conflicts :
                          batch'.conflicts[c] = SynthesizedOutput(batch'.args, f)]_vars
    /\ []((batch.pc # "idle" /\ batch.error = "output files exist")
            => batch.pc = "returned" /\ ~batch.success /\ jobs = <<>>)

\* C8 witness: a batch was aborted with two conflicting output paths listed.
C8_Witness ==
    /\ batch.pc = "returned"
    /\ batch.error = "output files exist"
    /\ \E i, j \in DOMAIN batch.conflicts : batch.conflicts[i] # batch.conflicts[j]

\* C9: of the jobs of a batch only the last can be unfinished: every earlier
\* one has settled and, if it ran, reached completed or failed with its
\* verification over; at most one task id is registered; and the jobs are
\* started in the order of the valid-file list.
C9_OneConversionAtATime ==
    /\ Cardinality({ t \in DOMAIN jobs : jobs[t].pc # "done" }) <= 1
    /\ Cardinality(activeConversions) <= 1
    /\ \A t \in DOMAIN jobs :
         t < Len(jobs) =>
           /\ jobs[t].pc = "done"
           /\ jobs[t].outcome # "pending"
           /\ jobs[t].ran => jobs[t].status \in {"completed", "failed"}
           /\ t \notin activeConversions
    /\ \A t \in DOMAIN jobs : jobs[t].inputPath = batch.validFiles[t]

\* C9 witness: the second job of a batch is with the engine after the first
\* one failed.
C9_Witness ==
    /\ Len(jobs) >= 2
    /\ jobs[1].ran
    /\ jobs[1].status = "failed"
    /\ jobs[Len(jobs)].pc = "started"

C11_ClassificationByCounts ==
    (batch.pc = "returned" /\ Given(batch.report)) =>
      LET succeeded == Cardinality({ t \in DOMAIN jobs : jobs[t].outcome = "resolved" })
          failed == Cardinality({ t \in DOMAIN jobs : jobs[t].outcome = "rejected" })
      IN /\ Val(batch.report).succeeded = succeeded
         /\ Val(batch.report).failed = failed
         /\ batch.success <=> succeeded >= 1
         /\ batch.message = "batch conversion complete" <=> (succeeded >= 1 /\ failed = 0)
         /\ batch.message = "batch conversion partly complete"
              <=> (succeeded >= 1 /\ failed >= 1)
         /\ batch.message = "batch conversion failed" <=> succeeded = 0
         /\ batch.message = "batch conversion failed" <=> ~batch.success
         /\ batch.message \in { "batch conversion complete",
                                "batch conversion partly complete",
                                "batch conversion failed" }

\* C11 witness: a batch ended as a partial success.
C11_Witness ==
    /\ batch.pc = "returned"
    /\ Given(batch.report)
    /\ batch.success
    /\ Val(batch.report).failed >= 1
    /\ batch.message = "batch conversion partly complete"

(***************************************************************************)
(* The service functions called on their own.                              *)
(***************************************************************************)
InitPure ==
    /\ fs = InputFiles
    /\ jobs = <<>>
    /\ activeConversions = {}
    /\ conv = IdleConv
    /\ batch = IdleBatch
    /\ call = IdleCall

NextPure ==
    \/ CallApplyConversionOptions
    \/ CallValidateResolution
    \/ CallValidateBitrate
    \/ CallValidateFrameRate
    \/ CallValidateOutputPath
    \/ CallParseFrameRate
    \/ CallGetVideoInfo
    \/ CallValidateInputFiles
    \/ CallSanitizeFileName

SpecPure == InitPure /\ [][NextPure]_vars

\* the directives of a command with a given name, in order
Named(command, name) == SelectSeq(command, LAMBDA d : d.k = name)

\* the eight formats the code has a table entry for
TableFormats == {F_mp4, F_avi, F_mov, F_wmv, F_mkv, F_webm, F_m4v, F_flv}

\* C12: whatever the target format, a command compiled with a quality preset
\* has as its last -crf directive 25 for low, 23 for medium, 21 for high and
\* 18 for ultra, the factor the thresholds >= 8000 -> 18, >= 5000 -> 21,
\* >= 2500 -> 23, else 25 give for the preset's video bitrate 1000, 2500,
\* 5000 or 8000; so the factor never rises as the preset ascends.
C12_PresetQualityFactor ==
    ( /\ call.fn = "applyConversionOptions"
      /\ call.options.quality \in {Some("low"), Some("medium"), Some("high"), Some("ultra")} )
    => LET quality == Val(call.options.quality)
           crfs == Named(call.command, "-crf")
           factor == [low |-> "25", medium |-> "23", high |-> "21", ultra |-> "18"]
           bitrate == [low |-> 1000, medium |-> 2500, high |-> 5000, ultra |-> 8000]
           threshold(b) == IF b >= 8000 THEN "18" ELSE IF b >= 5000 THEN "21"
                           ELSE IF b >= 2500 THEN "23" ELSE "25"
       IN /\ Len(crfs) >= 1
          /\ crfs[Len(crfs)].v = factor[quality]
          /\ getQualityPresets[quality].videoBitrate = bitrate[quality]
          /\ crfs[Len(crfs)].v = threshold(getQualityPresets[quality].videoBitrate)

\* C12 witness: a webm command compiled with the preset ultra.
C12_Witness ==
    /\ call.fn = "applyConversionOptions"
    /\ call.options.quality = Some("ultra")
    /\ call.options.outputFormat = Some(F_webm)
    /\ Len(Named(call.command, "-crf")) = 2

\* C13: a compiled command carries a video-bitrate directive only for a
\* format outside the quality-factor formats; for mp4, avi, mov, wmv, mkv,
\* webm, m4v and flv a video-bitrate override adds none, with a preset or
\* without; an audio-bitrate, resolution or frame-rate override is emitted
\* with the caller's value.
C13_OverridesEmitted ==
    call.fn = "applyConversionOptions" =>
      LET o == call.options
          video == Named(call.command, "videoBitrate")
          audio == Named(call.command, "audioBitrate")
      IN /\ Len(video) > 0 => /\ Given(o.videoBitrate)
                              /\ ToLower(Val(o.outputFormat)) \notin TableFormats
                              /\ video = << Num("videoBitrate", Val(o.videoBitrate)) >>
         /\ ToLower(Val(o.outputFormat)) \in TableFormats => video = <<>>
         /\ (Given(o.audioBitrate) /\ validateBitrate(Val(o.audioBitrate), "audio") = "ok")
            => /\ Len(audio) >= 1
               /\ audio[Len(audio)].n = Val(o.audioBitrate)
         /\ Given(o.resolution)
            => Named(call.command, "size") =
                 << [k |-> "size", w |-> Val(o.resolution).width,
                                   h |-> Val(o.resolution).height] >>
         /\ (Given(o.frameRate) /\ validateFrameRate(Val(o.frameRate)) = "ok")
            => Named(call.command, "fps") = << Num("fps", Val(o.frameRate)) >>

\* C13 witness: an flv command compiled with a preset and with video- and
\* audio-bitrate overrides.
C13_Witness ==
    /\ call.fn = "applyConversionOptions"
    /\ call.options.outputFormat = Some(F_flv)
    /\ call.options.quality = Some("high")
    /\ call.options.videoBitrate = Some(4000)
    /\ call.options.audioBitrate = Some(160)
    /\ Named(call.command, "videoBitrate") = <<>>
    /\ Len(Named(call.command, "audioBitrate")) = 2

\* C14: every compiled command has one video codec and one audio codec, both
\* non-empty; each of mp4, avi, mov, wmv, mkv, webm, m4v and flv has an entry
\* of its own (it forces a container and differs from every other entry),
\* and any other format string gets libx264, aac and quality factor 23.
C14_CodecsForEveryFormat ==
    call.fn = "applyConversionOptions" =>
      LET f == ToLower(Val(call.options.outputFormat))
          vcodec == Named(call.command, "videoCodec")
          acodec == Named(call.command, "audioCodec")
      IN /\ Len(vcodec) = 1 /\ vcodec[1].v # ""
         /\ Len(acodec) = 1 /\ acodec[1].v # ""
         /\ f \in TableFormats
            => /\ Len(Named(call.command, "-f")) = 1
               /\ \A g \in TableFormats \ {f} :
                    setCodecsForFormat(<<>>, g) # setCodecsForFormat(<<>>, f)
               /\ SubSeq(call.command, 1, Len(setCodecsForFormat(<<>>, f)))
                    = setCodecsForFormat(<<>>, f)
         /\ f \notin TableFormats
            => /\ vcodec[1].v = "libx264"
               /\ acodec[1].v = "aac"
               /\ Named(call.command, "-f") = <<>>
               /\ Len(Named(call.command, "-crf")) >= 1
               /\ Named(call.command, "-crf")[1].v = "23"

\* C14 witness: a command compiled for a format the table does not know.
C14_Witness ==
    /\ call.fn = "applyConversionOptions"
    /\ call.options.outputFormat = Some(F_gif)
    /\ Named(call.command, "videoCodec") = << [k |-> "videoCodec", v |-> "libx264"] >>

DecimalDigits == {"0", "1", "2", "3", "4", "5", "6", "7", "8", "9"}

\* C15: validateResolution accepts a string exactly when it is decimal
\* digits, one x, decimal digits, with 1 <= width <= 7680 and
\* 1 <= height <= 4320, and then returns that width and height; any other
\* string is rejected with a reason.
C15_ResolutionAccepted ==
    call.fn = "validateResolution" =>
      LET s == call.arg
          xs == { i \in 1..Len(s) : s[i] = "x" }
          wellFormed == /\ Cardinality(xs) = 1
                        /\ \A i \in 1..Len(s) : i \notin xs => s[i] \in DecimalDigits
                        /\ 1 \notin xs
                        /\ Len(s) \notin xs
          x == CHOOSE i \in xs : TRUE
          width == ParseInt(SubSeq(s, 1, x - 1))
          height == ParseInt(SubSeq(s, x + 1, Len(s)))
          accepted == /\ wellFormed
                      /\ 1 <= width /\ width <= 7680
                      /\ 1 <= height /\ height <= 4320
      IN /\ call.result.isValid <=> accepted
         /\ call.result.isValid => /\ call.result.width = width
                                   /\ call.result.height = height
         /\ ~call.result.isValid => call.result.error # ""

\* C15 witness: the largest resolution was accepted.
C15_Witness ==
    /\ call.fn = "validateResolution"
    /\ call.result.isValid
    /\ call.result.width = 7680
    /\ call.result.height = 4320

\* C16: validateBitrate accepts a video bitrate b exactly when
\* 0 < b <= 50000 and an audio bitrate exactly when 0 < b <= 320;
\* validateFrameRate accepts f exactly when 0 < f <= 120; a rejection carries
\* a reason.
C16_RateBounds ==
    /\ call.fn = "validateBitrate" =>
         /\ call.type = "video" => (call.result = "ok" <=> (0 < call.arg /\ call.arg <= 50000))
         /\ call.type = "audio" => (call.result = "ok" <=> (0 < call.arg /\ call.arg <= 320))
         /\ call.result # ""
    /\ call.fn = "validateFrameRate" =>
         /\ call.result = "ok" <=> (0 < call.arg /\ call.arg <= 120)
         /\ call.result # ""

\* C16 witness: the audio bitrate 320 was accepted.
C16_Witness ==
    /\ call.fn = "validateBitrate"
    /\ call.type = "audio"
    /\ call.arg = 320
    /\ call.result = "ok"

\* C17: validateOutputPath rejects every file name that, letter case aside,
\* is CON, PRN, AUX, NUL, COM1-COM9 or LPT1-LPT9, alone or followed by a dot
\* and anything; it accepts a name that only begins with those letters when
\* the name has no illegal character and the path passes the other checks.
C17_ReservedNamesRejected ==
    call.fn = "validateOutputPath" =>
      LET name == call.arg.base
          devices == { <<"C", "O", "N">>, <<"P", "R", "N">>, <<"A", "U", "X">>,
                       <<"N", "U", "L">> }
                     \cup { <<"C", "O", "M", d>> : d \in DecimalDigits \ {"0"} }
                     \cup { <<"L", "P", "T", d>> : d \in DecimalDigits \ {"0"} }
          reserved == \E r \in devices :
                        /\ Len(name) >= Len(r)
                        /\ ToUpper(SubSeq(name, 1, Len(r))) = r
                        /\ (Len(name) > Len(r) => name[Len(r) + 1] = ".")
          legal == /\ name # <<>>
                   /\ \A i \in 1..Len(name) : name[i] \notin InvalidChars
      IN /\ reserved => call.result # "ok"
         /\ (reserved /\ (call.overwrite \/ ~Exists(call.arg)))
            => call.result = "invalid file name"
         /\ (~reserved /\ legal /\ (call.overwrite \/ ~Exists(call.arg)))
            => call.result = "ok"

\* C17 witness: con.mp4 was rejected for its name.
C17_Witness ==
    /\ call.fn = "validateOutputPath"
    /\ call.arg.base = <<"c", "o", "n", ".", "m", "p", "4">>
    /\ call.result = "invalid file name"


\* the number a metadata field holds, 0 when it holds none
FieldNumber(f) ==
    IF f.t = "num" THEN f.x.h
    ELSE IF f.t = "str" /\ ~parseFloat(f.s).nan THEN parseFloat(f.s).h
    ELSE 0

\* C18: the duration getVideoInfo reports is the first non-zero value among
\* the container duration, the video-stream duration, the audio-stream
\* duration and frame count / frame rate (when both are positive); a
\* video-stream duration that is zero or no number leaves the audio-stream
\* duration in use.
C18_DurationResolution ==
    call.fn = "getVideoInfo" =>
      LET m == call.metadata
          container == FieldNumber(m.format.duration)
          video == IF Given(m.video) THEN FieldNumber(Val(m.video).duration) ELSE 0
          audio == IF Given(m.audio) THEN FieldNumber(Val(m.audio).duration) ELSE 0
          frames == IF Given(m.video) THEN FieldNumber(Val(m.video).nb_frames) ELSE 0
          rate == IF Given(m.video) /\ Given(Val(m.video).r_frame_rate)
                     /\ Val(Val(m.video).r_frame_rate) = <<"3", "0", "/", "1">>
                  THEN 3000 ELSE 0
          computed == IF frames > 0 /\ rate > 0 THEN (frames * 100) \div rate ELSE 0
          expected == IF container # 0 THEN container
                      ELSE IF video # 0 THEN video
                      ELSE IF audio # 0 THEN audio
                      ELSE computed
      IN /\ ~call.duration.nan
         /\ call.duration.h = expected

\* C19: parseFrameRate returns a number that is not NaN and not negative for
\* every input: the quotient for numerator/denominator with a non-zero
\* denominator, and 0 for a missing, empty or malformed input or a zero
\* denominator.
C19_FrameRateWellDefined ==
    call.fn = "parseFrameRate" =>
      LET s == IF Given(call.arg) THEN Val(call.arg) ELSE <<>>
          slashes == { i \in 1..Len(s) : s[i] = "/" }
          slash == CHOOSE i \in slashes : TRUE
          num == SubSeq(s, 1, slash - 1)
          den == SubSeq(s, slash + 1, Len(s))
          fraction == /\ Cardinality(slashes) = 1
                      /\ \A i \in 1..Len(num) : num[i] \in DecimalDigits
                      /\ \A i \in 1..Len(den) : den[i] \in DecimalDigits
                      /\ num # <<>>
                      /\ den # <<>>
                      /\ ParseInt(den) # 0
          plain == s # <<>> /\ s[1] \in DecimalDigits /\ slashes = {}
      IN /\ ~call.result.nan
         /\ call.result.h >= 0
         /\ fraction =>
              call.result.h = (200 * ParseInt(num) + ParseInt(den)) \div (2 * ParseInt(den))
         /\ (~fraction /\ ~plain) => call.result.h = 0

\* C20: a job's progress is always an integer from 0 to 100, whatever
\* percentage the engine reports in a progress event, and it is 100 whenever
\* the status is completed.
C20_ProgressWithinRange ==
    \A t \in DOMAIN jobs :
        /\ jobs[t].progress \in 0..100
        /\ jobs[t].status = "completed" => jobs[t].progress = 100

\* what a callback that kept the object of its first invocation reads from
\* it now: the object is the job's own progress object
HeldByCallback(t) == [status |-> jobs[t].status, progress |-> jobs[t].progress]

\* C21: what the progress callback was handed for an event is a snapshot:
\* the status and progress delivered for the start event stay as they were
\* delivered, whatever events the job sees later.
C21_CallbackReceivesSnapshot ==
    \A t \in DOMAIN jobs :
        Given(jobs[t].delivered) => HeldByCallback(t) = Val(jobs[t].delivered)

\* C22: validateInputFiles splits its list in two: the entries that pass
\* validateVideoFile are validFiles and the others invalidFiles, each entry
\* of the list (a repeated path once per occurrence) in exactly one of them,
\* in the order of the list, and each invalid entry with a reason.
C22_ValidationPartitions ==
    call.fn = "validateInputFiles" =>
      LET files == call.arg
          n == Len(files)
          good == { i \in 1..n : validateVideoFile(files[i]) = "ok" }
          nV == Len(call.validFiles)
          nI == Len(call.invalidFiles)
      IN /\ nV + nI = n
         /\ \E f \in [1..nV -> 1..n], g \in [1..nI -> 1..n] :
              /\ \A j, k \in 1..nV : j < k => f[j] < f[k]
              /\ \A j, k \in 1..nI : j < k => g[j] < g[k]
              /\ { f[k] : k \in 1..nV } = good
              /\ { g[k] : k \in 1..nI } = (1..n) \ good
              /\ \A k \in 1..nV : call.validFiles[k] = files[f[k]]
              /\ \A k \in 1..nI : call.invalidFiles[k].path = files[g[k]]
         /\ \A k \in 1..nI : call.invalidFiles[k].error # ""

\* C22 witness: a list with a bad entry between two good ones, one of them
\* repeated after a second bad entry.
C22_Witness ==
    /\ call.fn = "validateInputFiles"
    /\ Len(call.arg) = 3
    /\ Len(call.invalidFiles) = 2
    /\ Len(call.validFiles) = 1
    /\ call.invalidFiles[1].path # call.invalidFiles[2].path
    /\ call.arg[2] = call.validFiles[1]

(***************************************************************************)
(* batch_convert on files whose names collide or are no legal output names *)
(***************************************************************************)
InitBatchNames ==
    /\ fs = NamedInputFiles
    /\ jobs = <<>>
    /\ activeConversions = {}
    /\ conv = IdleConv
    /\ batch = IdleBatch
    /\ call = IdleCall

NextBatchNames ==
    \/ ReceiveNamedBatch
    \/ BatchCall
    \/ BatchSettled
    \/ BatchReport
    \/ \E t \in DOMAIN jobs : StartJob(t)
    \/ \E t \in DOMAIN jobs : EngineStart(t)
    \/ \E t \in DOMAIN jobs : EngineProgress(t)
    \/ \E t \in DOMAIN jobs : EngineEnd(t)
    \/ \E t \in DOMAIN jobs : EndVerified(t)
    \/ \E t \in DOMAIN jobs : NotifyCompleted(t)
    \/ \E t \in DOMAIN jobs : NotifyFailed(t)
    \/ \E t \in DOMAIN jobs : EngineError(t)
    \/ \E t \in DOMAIN jobs : NotifyError(t)

SpecBatchNames == InitBatchNames /\ [][NextBatchNames]_vars

\* C23: every output path batch_convert hands to convertVideo is
\* <outputDir>/<input name without extension>.<format>, and its file name
\* passes the output file-name rule (1 to 255 characters, no forbidden
\* character, no reserved device name).
C23_BatchOutputNamesLegal ==
    \A t \in DOMAIN jobs :
        /\ jobs[t].outputPath =
             Join(batch.args.outputDir,
                  ParseName(jobs[t].inputPath.base) \o Dot \o Val(batch.args.outputFormat))
        /\ isValidFileName(jobs[t].outputPath.base)

\* C26: in a batch with overwrite false that passed the conflict pre-scan,
\* distinct valid inputs have distinct output paths, and no job is refused
\* because its output file exists.
C26_BatchOutputsDistinct ==
    (batch.pc # "idle" /\ ~OrFalse(batch.args.overwrite) /\ batch.error = "") =>
      /\ \A j, k \in DOMAIN batch.tasks :
           batch.tasks[j].inputPath # batch.tasks[k].inputPath
           => batch.tasks[j].outputPath # batch.tasks[k].outputPath
      /\ \A t \in DOMAIN jobs : jobs[t].message # "outputExists"

\* C24: once a terminal event's handler is through, the convertVideo promise
\* is settled (resolved or rejected, never left pending) whatever the
\* progress callback did, and a job is failed only by a failed verification
\* or an engine error, never because the callback threw after the job had
\* completed.
C24_SettlesWhateverCallbackDoes ==
    \A t \in DOMAIN jobs :
        /\ (jobs[t].ran /\ jobs[t].pc = "done")
             => jobs[t].outcome \in {"resolved", "rejected"}
        /\ jobs[t].status = "failed"
             => jobs[t].error \in VerificationErrors \cup {"engine error"}

\* C29: no compiled command carries both a constant-quality factor and the
\* caller's video-bitrate override, for the table's formats and for any
\* other format string.
C29_QualityFactorExcludesBitrateOverride ==
    call.fn = "applyConversionOptions" =>
      ~ ( /\ Named(call.command, "-crf") # <<>>
          /\ Given(call.options.videoBitrate)
          /\ \E i \in DOMAIN call.command :
               call.command[i] = Num("videoBitrate", Val(call.options.videoBitrate)) )

\* C28: whatever string sanitizeFileName is given, its result passes the
\* file-name rule (1 to 255 characters, no forbidden character, no reserved
\* device name), and "CON.mp4" comes back with the reserved part replaced by
\* "_" and the extension kept.
C28_SanitizedNamePassesRule ==
    call.fn = "sanitizeFileName" =>
      /\ isValidFileName(call.result)
      /\ call.arg = <<"C", "O", "N", ".", "m", "p", "4">>
           => call.result = <<"_", ".", "m", "p", "4">>

\* C27: the engine is never run on a job whose output path is its input
\* path, whether convert_video was given the output path or derived it, and
\* whatever the overwrite flag.
C27_EngineNeverWritesOntoItsInput ==
    \A t \in DOMAIN jobs :
        jobs[t].ran => jobs[t].outputPath # jobs[t].inputPath

(***************************************************************************)
(* Overlapping convertVideo calls.                                         *)
(***************************************************************************)
\* a caller invokes convertVideo while earlier calls are at any point of
\* their run: the preconditions are checked against the file system as it
\* is at that moment
ConcurrentConvertVideo ==
    /\ Len(jobs) < MaxConcurrent
    /\ \E outputPath \in {P_out_a, P_out_b}, overwrite \in BOOLEAN :
         jobs' = Append(jobs, NewJob(P_a_mp4, outputPath, overwrite, Some(F_mkv), "quiet"))
    /\ UNCHANGED <<fs, activeConversions, conv, batch, call>>

NextConcurrent ==
    \/ ConcurrentConvertVideo
    \/ \E t \in DOMAIN jobs : StartJob(t)
    \/ \E t \in DOMAIN jobs : EngineStart(t)
    \/ \E t \in DOMAIN jobs : EngineProgress(t)
    \/ \E t \in DOMAIN jobs : EngineEnd(t)
    \/ \E t \in DOMAIN jobs : EndVerified(t)
    \/ \E t \in DOMAIN jobs : NotifyCompleted(t)
    \/ \E t \in DOMAIN jobs : NotifyFailed(t)
    \/ \E t \in DOMAIN jobs : EngineError(t)
    \/ \E t \in DOMAIN jobs : NotifyError(t)

SpecConcurrent == InitJobs /\ [][NextConcurrent]_vars

\* C25: with overwrite false the engine is never run on an output path
\* where a file exists, and never on an output path that another job whose
\* engine is still running writes to, however the calls interleave.
C25_NoOverwriteUnderInterleaving ==
    \A t \in DOMAIN jobs :
        (~jobs[t].overwrite /\ jobs[t].pc \in {"spawned", "started"}) =>
          /\ jobs[t].pc = "spawned" => ~Exists(jobs[t].outputPath)
          /\ \A u \in DOMAIN jobs \ {t} :
               jobs[u].pc \in {"spawned", "started"}
               => jobs[u].outputPath # jobs[t].outputPath

(***************************************************************************)
(* FFmpegService.batchConvert.                                             *)
(***************************************************************************)
\* batchConvert(inputFiles, outputDir, options, onProgress) is called:
\* const results = []
CallBatchConvert ==
    /\ call = IdleCall
    /\ \E inputFiles \in UNION { [1..n -> {P_a_mp4, P_b_avi}] : n \in 0..MaxServiceBatch },
          overwrite \in BOOLEAN, cb \in Callbacks :
         call' = [ fn         |-> "batchConvert",
                   pc         |-> "looping",
                   inputFiles |-> inputFiles,
                   outputDir  |-> "out",
                   options    |-> [outputFormat |-> Some(F_mkv), overwrite |-> overwrite],
                   cb         |-> cb,
                   i          |-> 1,
                   task       |-> 0,
                   results    |-> <<>>,
                   error      |-> "" ]
    /\ UNCHANGED <<jobVars, conv, batch>>

\* the loop body up to the await: the output path is
\* <outputDir>/<name>.<format> and convertVideo is called
ServiceBatchCall ==
    /\ call.fn = "batchConvert"
    /\ call.pc = "looping"
    /\ call.i <= Len(call.inputFiles)
    /\ LET inputFile  == call.inputFiles[call.i]
           outputPath == Join(call.outputDir,
                              ParseName(inputFile.base) \o Dot
                                \o Val(call.options.outputFormat))
       IN jobs' = Append(jobs, NewJob(inputFile, outputPath, call.options.overwrite,
                                      call.options.outputFormat, call.cb))
    /\ call' = [call EXCEPT !.pc = "awaiting", !.task = Len(jobs) + 1]
    /\ UNCHANGED <<fs, activeConversions, conv, batch>>

\* a loop that catches the rejection and goes on to the next file
ServiceBatchSettledIsolating ==
    /\ call.fn = "batchConvert"
    /\ call.pc = "awaiting"
    /\ jobs[call.task].outcome # "pending"
    /\ call' =
         IF jobs[call.task].outcome = "resolved"
         THEN [call EXCEPT !.pc = "looping", !.i = call.i + 1,
                           !.results = Append(call.results, jobs[call.task].outputPath)]
         ELSE [call EXCEPT !.pc = "looping", !.i = call.i + 1]
    /\ UNCHANGED <<jobVars, conv, batch>>

\* the await ends: results.push(result), or the catch block logs the error
\* and throws it again, which rejects batchConvert
ServiceBatchSettled ==
    /\ call.fn = "batchConvert"
    /\ call.pc = "awaiting"
    /\ jobs[call.task].outcome # "pending"
    /\ call' =
         IF jobs[call.task].outcome = "resolved"
         THEN [call EXCEPT !.pc = "looping", !.i = call.i + 1,
                           !.results = Append(call.results, jobs[call.task].outputPath)]
         ELSE [call EXCEPT !.pc = "thrown", !.error = jobs[call.task].message]
    /\ UNCHANGED <<jobVars, conv, batch>>

\* the loop is through: return results
ServiceBatchReturn ==
    /\ call.fn = "batchConvert"
    /\ call.pc = "looping"
    /\ call.i > Len(call.inputFiles)
    /\ call' = [call EXCEPT !.pc = "returned"]
    /\ UNCHANGED <<jobVars, conv, batch>>

InitService ==
    /\ \E pre \in SUBSET {P_out_b} :
         fs = InputFiles @@ [p \in pre |-> "ok"]
    /\ jobs = <<>>
    /\ activeConversions = {}
    /\ conv = IdleConv
    /\ batch = IdleBatch
    /\ call = IdleCall

NextService ==
    \/ CallBatchConvert
    \/ ServiceBatchCall
    \/ ServiceBatchSettled
    \/ ServiceBatchReturn
    \/ \E t \in DOMAIN jobs : StartJob(t)
    \/ \E t \in DOMAIN jobs : EngineStart(t)
    \/ \E t \in DOMAIN jobs : EngineProgress(t)
    \/ \E t \in DOMAIN jobs : EngineEnd(t)
    \/ \E t \in DOMAIN jobs : EndVerified(t)
    \/ \E t \in DOMAIN jobs : NotifyCompleted(t)
    \/ \E t \in DOMAIN jobs : NotifyFailed(t)
    \/ \E t \in DOMAIN jobs : EngineError(t)
    \/ \E t \in DOMAIN jobs : NotifyError(t)

SpecService == InitService /\ [][NextService]_vars

\* C30 as stated: batchConvert isolates failures: when the call is over,
\* every file of the list was attempted and the call has returned the
\* output paths of the files that converted.
C30_BatchConvertIsolatesFailures ==
    (call.fn = "batchConvert" /\ call.pc \in {"returned", "thrown"}) =>
      /\ Len(jobs) = Len(call.inputFiles)
      /\ call.pc = "returned"

\* C30: batchConvert converts its files one at a time in list order and
\* stops at the first failure: a file is attempted only after every file
\* before it converted, a rejected conversion rejects the call with that
\* conversion's error and no later file is attempted, and the call returns,
\* with the output paths of all files in list order, only when every file
\* converted.
C30_BatchConvertStopsAtFirstFailure ==
    call.fn = "batchConvert" =>
      /\ Len(jobs) <= Len(call.inputFiles)
      /\ \A t \in DOMAIN jobs :
           /\ jobs[t].inputPath = call.inputFiles[t]
           /\ t < Len(jobs) => jobs[t].pc = "done" /\ jobs[t].outcome = "resolved"
      /\ call.results = [t \in 1..Len(call.results) |-> jobs[t].outputPath]
      /\ \A t \in DOMAIN call.results : jobs[t].outcome = "resolved"
      /\ call.pc = "thrown" =>
           /\ jobs[Len(jobs)].outcome = "rejected"
           /\ call.error = jobs[Len(jobs)].message
           /\ Len(call.results) = Len(jobs) - 1
      /\ call.pc = "returned" =>
           /\ Len(call.results) = Len(call.inputFiles)
           /\ \A t \in DOMAIN jobs : jobs[t].outcome = "resolved"

\* C30 witness: the first of three files converted, the second failed, the
\* call is rejected and the third file was never attempted.
C30_Witness ==
    /\ call.fn = "batchConvert"
    /\ call.pc = "thrown"
    /\ Len(call.inputFiles) = 3
    /\ Len(jobs) = 2
    /\ Len(call.results) = 1
    /\ jobs[2].outcome = "rejected"

====
